---- MODULE Spec2Model ----
(***************************************************************************)
(* A model of geoalchemy2/elements.py: the spatial elements WKTElement,    *)
(* WKBElement and RasterElement, their constructors, their WKB<->EWKB and  *)
(* WKT<->EWKT conversions and their equality.                              *)
(*                                                                         *)
(* Representation.                                                         *)
(*  - a bytes value is a sequence of integers 0..255;                      *)
(*  - a str value is a sequence of character codes (ASCII), so that        *)
(*    str.lower(), hexlify() and unhexlify() are computed, not assumed;    *)
(*  - a Python int is a record [hi, lo] standing for hi * 65536 + lo with  *)
(*    lo in 0..65535 and hi any integer: the unsigned 32-bit words of the  *)
(*    format (up to 2^32 - 1) do not fit a model-checker integer, the two  *)
(*    halves do.  The representation is canonical: two records are equal   *)
(*    exactly when the integers are.                                       *)
(*  - the result of a call is [err, e, msg]: err = "" and the element e,   *)
(*    or the name of the exception raised, e = NoElem and the message.     *)
(*                                                                         *)
(* The raster decoder of tests/gallery/test_decipher_raster.py (wkbHeader, *)
(* read_band, wkbImage) is modelled as well; a decoded integer is a Python *)
(* int as above and a decoded float is kept as its IEEE-754 bits.          *)
(***************************************************************************)
EXTENDS Integers, Sequences, FiniteSets, TLC

VARIABLES
    input,   \* the arguments of the constructor call: [cls, kind, data, srid, ext]
    trace,   \* the elements so far: trace[1] is the constructed one,
             \* trace[i+1] the one returned by ops[i] called on trace[i]
    ops,     \* the names of the conversions called so far
    err,     \* "" or the exception raised by the last call
    errmsg,  \* the message of that exception: [text, args]
    decoded, \* the outcome of the raster decoder called on the input:
             \* [fn, err, msg, ret, offset]
    otherInput, \* the constructor arguments of the right-hand operand of ==
    other,   \* the right-hand operand of the last comparison
    eqres    \* "none", or the outcome "True" / "False" of the last comparison

vars == <<input, trace, ops, err, errmsg, decoded, otherInput, other, eqres>>

\* ------------------------------------------------------------------ bounds

\* the longest geometry body after the WKB header
MaxBody == 2
\* the number of conversions chained on one element
MaxOps == 2
\* the longest WKT body after the "SRID=<n>;" prefix
MaxWkt == 2
\* the most bytes that follow the 61-byte raster header
MaxBand == 2
\* the largest width and height of a decoded raster
MaxSide == 2
\* the most bands of a decoded raster
MaxBands == 2

\* ------------------------------------------------------------------ Python values

Min(a, b) == IF a < b THEN a ELSE b

\* s[a:b] of Python, for 0 <= a
Slice(s, a, b) == IF a >= Min(b, Len(s)) THEN << >> ELSE SubSeq(s, a + 1, Min(b, Len(s)))

\* s[a:] of Python
SliceFrom(s, a) == Slice(s, a, Len(s))

\* the Python int n, for a model-checker integer n
PyInt(n) == [hi |-> n \div 65536, lo |-> n % 65536]

\* the 32-bit word with the given 16-bit halves
W32(h, l) == [hi |-> h, lo |-> l]

\* srid == -1
IsMinusOne(v) == v = PyInt(-1)

\* bitwise and / or of two naturals below 2^16
RECURSIVE And16(_, _)
And16(a, b) ==
    IF a = 0 \/ b = 0 THEN 0
    ELSE (IF a % 2 = 1 /\ b % 2 = 1 THEN 1 ELSE 0) + 2 * And16(a \div 2, b \div 2)

RECURSIVE Or16(_, _)
Or16(a, b) ==
    IF a = 0 THEN b
    ELSE IF b = 0 THEN a
    ELSE (IF a % 2 = 1 \/ b % 2 = 1 THEN 1 ELSE 0) + 2 * Or16(a \div 2, b \div 2)

\* x & y and x | y for non-negative x, y below 2^32
And32(x, y) == W32(And16(x.hi, y.hi), And16(x.lo, y.lo))
Or32(x, y) == W32(Or16(x.hi, y.hi), Or16(x.lo, y.lo))

\* the flag one bit too high: 0x40000000
SRID_FLAG_WrongBit == W32(16384, 0)

\* 536870912 == 0x20000000, the SRID bit of the type word
SRID_FLAG == W32(8192, 0)
\* a mask that clears the dimension flags too: 0x1FFFFFFF
SRID_MASK_ClearsFlags == W32(8191, 65535)

\* 3758096383 == 0xDFFFFFFF, every bit but the SRID bit
SRID_MASK == W32(57343, 65535)

\* ------------------------------------------------------------------ struct

\* the two byte orders taken for each other
ByteOrderMarker_Swapped(byte_order) == IF byte_order # 0 THEN ">I" ELSE "<I"

\* "<I" if byte_order else ">I"
ByteOrderMarker(byte_order) == IF byte_order # 0 THEN "<I" ELSE ">I"

\* struct.unpack(marker, b)[0] for the formats "<I" and ">I", b of 4 bytes
UnpackI(marker, b) ==
    IF marker = "<I"
    THEN W32(b[3] + 256 * b[4], b[1] + 256 * b[2])
    ELSE W32(b[1] * 256 + b[2], b[3] * 256 + b[4])

\* whether struct.pack("I") and int.to_bytes(4) accept v: 0 <= v < 2^32
FitsU32(v) == v.hi >= 0 /\ v.hi <= 65535

\* the 4 bytes of v, least significant first when little is true:
\* struct.pack(marker, v) and v.to_bytes(4, "little" | "big")
Bytes4(little, v) ==
    IF little
    THEN << v.lo % 256, v.lo \div 256, v.hi % 256, v.hi \div 256 >>
    ELSE << v.hi \div 256, v.hi % 256, v.lo \div 256, v.lo % 256 >>

\* the SRID of a raster read as an unsigned word
UnpackSigned_Unsigned(little, b) == UnpackI(IF little THEN "<I" ELSE ">I", b)

\* struct.unpack(fmt + "i", b)[0]: the signed 32-bit integer
UnpackSigned(little, b) ==
    LET u == UnpackI(IF little THEN "<I" ELSE ">I", b)
    IN  IF u.hi >= 32768 THEN W32(u.hi - 65536, u.lo) ELSE u

\* ------------------------------------------------------------------ binascii, str

HexDigit(n) == IF n < 10 THEN 48 + n ELSE 87 + n

\* the value of a hexadecimal character, -1 for any other character
HexVal(c) ==
    IF c >= 48 /\ c <= 57 THEN c - 48
    ELSE IF c >= 97 /\ c <= 102 THEN c - 87
    ELSE IF c >= 65 /\ c <= 70 THEN c - 55
    ELSE -1

\* binascii.hexlify(b), decoded: two lowercase characters per byte
Hexlify(b) ==
    [i \in 1..(2 * Len(b)) |->
        IF i % 2 = 1 THEN HexDigit(b[(i + 1) \div 2] \div 16)
                     ELSE HexDigit(b[i \div 2] % 16)]

\* whether binascii.unhexlify(s) returns: even length, hexadecimal digits only
IsHex(s) == Len(s) % 2 = 0 /\ \A i \in 1..Len(s) : HexVal(s[i]) >= 0

\* binascii.unhexlify(s), for IsHex(s)
Unhexlify(s) ==
    [i \in 1..(Len(s) \div 2) |-> 16 * HexVal(s[2 * i - 1]) + HexVal(s[2 * i])]

\* str.lower() on ASCII
LowerChar(c) == IF c >= 65 /\ c <= 90 THEN c + 32 ELSE c
Lower(s) == [i \in 1..Len(s) |-> LowerChar(s[i])]

\* str.upper() on ASCII
UpperChar(c) == IF c >= 97 /\ c <= 122 THEN c - 32 ELSE c
Upper(s) == [i \in 1..Len(s) |-> UpperChar(s[i])]

\* ------------------------------------------------------------------ elements

NoElem == [cls |-> "none", kind |-> "str", data |-> << >>, srid |-> PyInt(-1),
           extended |-> FALSE]

\* the message of an exception: the text of its f-string, "{}" for each
\* formatted value, and the integers formatted
NoMsg == [text |-> "", args |-> << >>]
Msg(text, args) == [text |-> text, args |-> args]

Ok(e) == [err |-> "", e |-> e, msg |-> NoMsg]
Raise(name) == [err |-> name, e |-> NoElem, msg |-> NoMsg]
RaiseMsg(name, text, args) == [err |-> name, e |-> NoElem, msg |-> Msg(text, args)]

\* _SpatialElement.__init__
SpatialElementInit(cls, kind, data, srid, extended) ==
    Ok([cls |-> cls, kind |-> kind, data |-> data, srid |-> srid,
        extended |-> extended])

\* ------------------------------------------------------------------ WKBElement

\* WKBElement.__init__(data, srid, extended); ext is "None", "True" or "False"
WKBElementInit(kind, data, srid, ext) ==
    IF IsMinusOne(srid) \/ ext = "None" \/ ext = "True"
    THEN IF kind = "str" /\ ~IsHex(Slice(data, 0, 18))
         THEN Raise("binascii.Error")
         ELSE LET header == IF kind = "str" THEN Unhexlify(Slice(data, 0, 18))
                                            ELSE Slice(data, 0, 9)
              IN  IF Len(header) = 0
                  THEN Raise("IndexError")
                  ELSE LET byte_order == header[1]
                           wkb_type == Slice(header, 1, 5)
                           wkb_srid == SliceFrom(header, 5)
                           byte_order_marker == ByteOrderMarker(byte_order)
                           wkb_type_int ==
                               IF Len(wkb_type) = 4
                               THEN UnpackI(byte_order_marker, wkb_type)
                               ELSE PyInt(0)
                           extended ==
                               IF ext = "None"
                               THEN IF wkb_type_int = PyInt(0)
                                    THEN FALSE
                                    ELSE And32(wkb_type_int, SRID_FLAG) # PyInt(0)
                               ELSE ext = "True"
                       IN  IF extended /\ IsMinusOne(srid)
                           THEN IF Len(wkb_srid) # 4
                                THEN Raise("struct.error")
                                ELSE SpatialElementInit("WKB", kind, data,
                                         UnpackI(byte_order_marker, wkb_srid), extended)
                           ELSE SpatialElementInit("WKB", kind, data, srid, extended)
    ELSE SpatialElementInit("WKB", kind, data, srid, FALSE)

\* the description of a hex payload left in the case it came in
WkbToHex_NoLower(kind, data) == IF kind = "str" THEN data ELSE Lower(Hexlify(data))

\* WKBElement._wkb_to_hex
WkbToHex(kind, data) == IF kind = "str" THEN Lower(data) ELSE Lower(Hexlify(data))

\* WKBElement._data_from_desc
WkbDataFromDesc(desc) == Unhexlify(desc)

\* as_wkb that cuts a hex payload one byte early
StripPayload_HexOffset(kind, data, byte_order, wkb_type_int) ==
    IF kind = "str"
    THEN Slice(data, 0, 2)
         \o Hexlify(Bytes4(byte_order # 0, wkb_type_int))
         \o SliceFrom(data, 16)
    ELSE Slice(data, 0, 1)
         \o Bytes4(ByteOrderMarker(byte_order) = "<I", wkb_type_int)
         \o SliceFrom(data, 9)

\* as_wkb that clears the SRID bit and leaves the 4 SRID bytes in the payload
StripPayload_KeepsSrid(kind, data, byte_order, wkb_type_int) ==
    IF kind = "str"
    THEN Slice(data, 0, 2)
         \o Hexlify(Bytes4(byte_order # 0, wkb_type_int))
         \o SliceFrom(data, 10)
    ELSE Slice(data, 0, 1)
         \o Bytes4(ByteOrderMarker(byte_order) = "<I", wkb_type_int)
         \o SliceFrom(data, 5)

\* WKBElement.as_wkb, the payload it builds: byte 0, the type word without
\* the SRID bit, and what follows the 4 SRID bytes
StripPayload(kind, data, byte_order, wkb_type_int) ==
    IF kind = "str"
    THEN Slice(data, 0, 2)
         \o Hexlify(Bytes4(byte_order # 0, wkb_type_int))
         \o SliceFrom(data, 18)
    ELSE Slice(data, 0, 1)
         \o Bytes4(ByteOrderMarker(byte_order) = "<I", wkb_type_int)
         \o SliceFrom(data, 9)

\* as_ewkb that writes the SRID most significant byte first whatever byte 0 says
InjectPayload_BigEndianSrid(kind, data, byte_order, wkb_type_int, srid) ==
    IF kind = "str"
    THEN Slice(data, 0, 2)
         \o Hexlify(Bytes4(byte_order # 0, wkb_type_int))
         \o Hexlify(Bytes4(FALSE, srid))
         \o SliceFrom(data, 10)
    ELSE Slice(data, 0, 1)
         \o Bytes4(ByteOrderMarker(byte_order) = "<I", wkb_type_int)
         \o Bytes4(FALSE, srid)
         \o SliceFrom(data, 5)

\* WKBElement.as_ewkb, the payload it builds: byte 0, the type word with the
\* SRID bit, the SRID, and what follows the type word
InjectPayload(kind, data, byte_order, wkb_type_int, srid) ==
    IF kind = "str"
    THEN Slice(data, 0, 2)
         \o Hexlify(Bytes4(byte_order # 0, wkb_type_int))
         \o Hexlify(Bytes4(byte_order # 0, srid))
         \o SliceFrom(data, 10)
    ELSE Slice(data, 0, 1)
         \o Bytes4(ByteOrderMarker(byte_order) = "<I", wkb_type_int)
         \o Bytes4(ByteOrderMarker(byte_order) = "<I", srid)
         \o SliceFrom(data, 5)

\* as_wkb that removes the SRID bytes and leaves the SRID bit in the type word
AsWkb_KeepsFlag(self) ==
    IF self.extended
    THEN IF self.kind = "str" /\ ~IsHex(Slice(self.data, 0, 10))
         THEN Raise("binascii.Error")
         ELSE LET header == IF self.kind = "str" THEN Unhexlify(Slice(self.data, 0, 10))
                                                 ELSE self.data
              IN  IF Len(header) = 0
                  THEN Raise("IndexError")
                  ELSE LET byte_order == header[1]
                           wkb_type == Slice(header, 1, 5)
                           byte_order_marker == ByteOrderMarker(byte_order)
                           wkb_type_int ==
                               IF Len(wkb_type) = 4
                               THEN UnpackI(byte_order_marker, wkb_type)
                               ELSE PyInt(0)
                           data == StripPayload(self.kind, self.data, byte_order,
                                                wkb_type_int)
                       IN  WKBElementInit(self.kind, data, self.srid, "False")
    ELSE WKBElementInit(self.kind, self.data, self.srid, "None")

\* WKBElement.as_wkb
AsWkb(self) ==
    IF self.extended
    THEN IF self.kind = "str" /\ ~IsHex(Slice(self.data, 0, 10))
         THEN Raise("binascii.Error")
         ELSE LET header == IF self.kind = "str" THEN Unhexlify(Slice(self.data, 0, 10))
                                                 ELSE self.data
              IN  IF Len(header) = 0
                  THEN Raise("IndexError")
                  ELSE LET byte_order == header[1]
                           wkb_type == Slice(header, 1, 5)
                           byte_order_marker == ByteOrderMarker(byte_order)
                           wkb_type_int ==
                               And32(IF Len(wkb_type) = 4
                                     THEN UnpackI(byte_order_marker, wkb_type)
                                     ELSE PyInt(0),
                                     SRID_MASK)
                           data == StripPayload(self.kind, self.data, byte_order,
                                                wkb_type_int)
                       IN  WKBElementInit(self.kind, data, self.srid, "False")
    ELSE WKBElementInit(self.kind, self.data, self.srid, "None")

\* WKBElement.as_ewkb
AsEwkb(self) ==
    IF ~self.extended /\ ~IsMinusOne(self.srid)
    THEN IF self.kind = "str" /\ ~IsHex(Slice(self.data, 0, 10))
         THEN Raise("binascii.Error")
         ELSE LET header == IF self.kind = "str" THEN Unhexlify(Slice(self.data, 0, 10))
                                                 ELSE self.data
              IN  IF Len(header) = 0
                  THEN Raise("IndexError")
                  ELSE LET byte_order == header[1]
                           wkb_type == Slice(header, 1, 5)
                           byte_order_marker == ByteOrderMarker(byte_order)
                           wkb_type_int ==
                               Or32(IF Len(wkb_type) = 4
                                    THEN UnpackI(byte_order_marker, wkb_type)
                                    ELSE PyInt(0),
                                    SRID_FLAG)
                       IN  IF ~FitsU32(self.srid)
                           THEN Raise(IF self.kind = "str" THEN "OverflowError"
                                                           ELSE "struct.error")
                           ELSE LET data == InjectPayload(self.kind, self.data, byte_order,
                                                         wkb_type_int, self.srid)
                                IN  WKBElementInit(self.kind, data, self.srid, "True")
    ELSE WKBElementInit(self.kind, self.data, self.srid, "None")

\* ------------------------------------------------------------------ str and int

\* the characters the elements look at
chSemi == 59
chSpace == 32
chNewline == 10
chMinus == 45
chPlus == 43
chUnderscore == 95

\* "SRID="
SridPrefix == << 83, 82, 73, 68, 61 >>

IsDigit(c) == c >= 48 /\ c <= 57

\* the characters int() strips from both ends
IsSpace(c) == c \in {9, 10, 11, 12, 13, 28, 29, 30, 31, 32}

\* str.startswith
StartsWith(s, prefix) == Len(s) >= Len(prefix) /\ SubSeq(s, 1, Len(prefix)) = prefix

\* s.count(c)
Count(s, c) == Cardinality({i \in 1..Len(s) : s[i] = c})

\* the index of the first c in s, for Count(s, c) > 0
IndexOf(s, c) == CHOOSE i \in 1..Len(s) : s[i] = c /\ \A j \in 1..(i - 1) : s[j] # c

\* str.strip() as int() applies it
Strip(s) ==
    LET keep == {i \in 1..Len(s) : ~IsSpace(s[i])}
    IN  IF keep = {} THEN << >>
        ELSE LET first == CHOOSE i \in keep : \A j \in keep : i <= j
                 last == CHOOSE i \in keep : \A j \in keep : i >= j
             IN  SubSeq(s, first, last)

\* 10 * v + d for a non-negative Python int v
Times10Plus(v, d) ==
    LET l == 10 * v.lo + d
    IN  W32(10 * v.hi + (l \div 65536), l % 65536)

\* -v
Negate(v) == IF v.lo = 0 THEN W32(-v.hi, 0) ELSE W32(-v.hi - 1, 65536 - v.lo)

\* the value of a run of digits and underscores
RECURSIVE DigitsValue(_, _)
DigitsValue(s, acc) ==
    IF s = << >> THEN acc
    ELSE IF s[1] = chUnderscore THEN DigitsValue(Tail(s), acc)
    ELSE DigitsValue(Tail(s), Times10Plus(acc, s[1] - 48))

\* int(s): [ok, v]; ok is false where int() raises ValueError
IntParse(s) ==
    LET t == Strip(s)
        signed == t # << >> /\ t[1] \in {chMinus, chPlus}
        body == IF signed THEN Tail(t) ELSE t
        valid == /\ body # << >>
                 /\ \A i \in 1..Len(body) : IsDigit(body[i]) \/ body[i] = chUnderscore
                 /\ IsDigit(body[1])
                 /\ IsDigit(body[Len(body)])
                 /\ \A i \in 1..(Len(body) - 1) :
                        ~(body[i] = chUnderscore /\ body[i + 1] = chUnderscore)
    IN  IF ~valid THEN [ok |-> FALSE, v |-> PyInt(0)]
        ELSE LET m == DigitsValue(body, PyInt(0))
             IN  [ok |-> TRUE, v |-> IF signed /\ t[1] = chMinus THEN Negate(m) ELSE m]

\* str(v) for a non-negative Python int v
RECURSIVE DecimalNat(_)
DecimalNat(v) ==
    LET t == (v.hi % 10) * 65536 + v.lo
        q == W32(v.hi \div 10, t \div 10)
    IN  IF q = PyInt(0) THEN << 48 + (t % 10) >>
        ELSE Append(DecimalNat(q), 48 + (t % 10))

\* str(v), as the f-string formats self.srid
Decimal(v) == IF v.hi < 0 THEN << chMinus >> \o DecimalNat(Negate(v)) ELSE DecimalNat(v)

\* ------------------------------------------------------------------ WKTElement

\* the constructor keeping srid = -1 when the prefix cannot be read
WKTElementInit_SilentDefault(data, srid, ext) ==
    LET extended == IF ext = "None" THEN StartsWith(data, SridPrefix) ELSE ext = "True"
    IN  IF extended /\ IsMinusOne(srid)
        THEN IF Count(data, chSemi) # 1
             THEN SpatialElementInit("WKT", "str", data, srid, extended)
             ELSE LET header == SubSeq(data, 1, IndexOf(data, chSemi) - 1)
                      parsed == IntParse(SliceFrom(header, 5))
                  IN  IF ~parsed.ok
                      THEN SpatialElementInit("WKT", "str", data, srid, extended)
                      ELSE SpatialElementInit("WKT", "str", data, parsed.v, extended)
        ELSE SpatialElementInit("WKT", "str", data, srid, extended)

\* the constructor reading the SRID one character early, at header[4:]
WKTElementInit_HeaderOffset(data, srid, ext) ==
    LET extended == IF ext = "None" THEN StartsWith(data, SridPrefix) ELSE ext = "True"
    IN  IF extended /\ IsMinusOne(srid)
        THEN IF Count(data, chSemi) # 1
             THEN Raise("ArgumentError")
             ELSE LET header == SubSeq(data, 1, IndexOf(data, chSemi) - 1)
                      parsed == IntParse(SliceFrom(header, 4))
                  IN  IF ~parsed.ok
                      THEN Raise("ArgumentError")
                      ELSE SpatialElementInit("WKT", "str", data, parsed.v, extended)
        ELSE SpatialElementInit("WKT", "str", data, srid, extended)

\* WKTElement.__init__(data, srid, extended); ext is "None", "True" or "False"
WKTElementInit(data, srid, ext) ==
    LET extended == IF ext = "None" THEN StartsWith(data, SridPrefix) ELSE ext = "True"
    IN  IF extended /\ IsMinusOne(srid)
        THEN IF Count(data, chSemi) # 1
             THEN Raise("ArgumentError")
             ELSE LET header == SubSeq(data, 1, IndexOf(data, chSemi) - 1)
                      parsed == IntParse(SliceFrom(header, 5))
                  IN  IF ~parsed.ok
                      THEN Raise("ArgumentError")
                      ELSE SpatialElementInit("WKT", "str", data, parsed.v, extended)
        ELSE SpatialElementInit("WKT", "str", data, srid, extended)

\* group(3) of WKTElement._REMOVE_SRID = "(SRID=([0-9]+); ?)?(.*)" matched on data
RemoveSridGroup3(data) ==
    LET n == Len(SridPrefix)
        \* the end of the run of digits that follows "SRID="
        digitsEnd == IF StartsWith(data, SridPrefix)
                     THEN CHOOSE k \in n..Len(data) :
                              /\ \A i \in (n + 1)..k : IsDigit(data[i])
                              /\ (k = Len(data) \/ ~IsDigit(data[k + 1]))
                     ELSE 0
        prefixed == /\ StartsWith(data, SridPrefix)
                    /\ digitsEnd > n
                    /\ digitsEnd < Len(data)
                    /\ data[digitsEnd + 1] = chSemi
        afterSemi == digitsEnd + 1
        start == IF ~prefixed THEN 0
                 ELSE IF afterSemi < Len(data) /\ data[afterSemi + 1] = chSpace
                      THEN afterSemi + 1
                      ELSE afterSemi
        rest == SliceFrom(data, start)
    IN  \* "." does not match a newline
        IF Count(rest, chNewline) = 0 THEN rest
        ELSE SubSeq(rest, 1, IndexOf(rest, chNewline) - 1)

\* WKTElement.as_wkt
AsWkt(self) ==
    IF self.extended
    THEN WKTElementInit(RemoveSridGroup3(self.data), self.srid, "False")
    ELSE WKTElementInit(self.data, self.srid, "False")

\* WKTElement.as_ewkt
AsEwkt(self) ==
    IF ~self.extended /\ ~IsMinusOne(self.srid)
    THEN WKTElementInit(SridPrefix \o Decimal(self.srid) \o << chSemi >> \o self.data,
                        PyInt(-1), "True")
    ELSE WKTElementInit(self.data, self.srid, IF self.extended THEN "True" ELSE "False")

\* ------------------------------------------------------------------ RasterElement

\* RasterElement.__init__: MIN_HEADER_SIZE
MIN_HEADER_SIZE == 61

\* the constructor decoding the hexadecimal digits before it looks at the length
RasterElementInit_DecodeFirst(kind, data) ==
    IF kind = "str" /\ ~IsHex(Slice(data, 0, MIN_HEADER_SIZE * 2))
    THEN RaiseMsg("ValueError", "Invalid hex data for raster: {}", << >>)
    ELSE IF kind = "str" /\ Len(data) < MIN_HEADER_SIZE * 2
    THEN RaiseMsg("ValueError", "Raster hex data too short: {} chars, need at least {}",
                  << Len(data), MIN_HEADER_SIZE * 2 >>)
    ELSE IF kind # "str" /\ Len(data) < MIN_HEADER_SIZE
    THEN RaiseMsg("ValueError", "Raster binary data too short: {} bytes, need at least {}",
                  << Len(data), MIN_HEADER_SIZE >>)
    ELSE LET bin_data == IF kind = "str" THEN Unhexlify(Slice(data, 0, MIN_HEADER_SIZE * 2))
                                         ELSE data
             data_str == IF kind = "str" THEN data ELSE Hexlify(data)
             byte_order == bin_data[1]
         IN  IF byte_order \notin {0, 1}
             THEN RaiseMsg("ValueError", "Invalid byte order in raster: {}, must be 0 or 1",
                           << byte_order >>)
             ELSE LET srid_bytes == Slice(bin_data, 53, 57)
                  IN  IF Len(srid_bytes) # 4
                      THEN RaiseMsg("ValueError",
                               "Could not extract SRID bytes from raster data, got {} bytes",
                               << Len(srid_bytes) >>)
                      ELSE SpatialElementInit("Raster", "str", data_str,
                               UnpackSigned(byte_order = 1, srid_bytes), TRUE)

\* RasterElement.__init__(data)
RasterElementInit(kind, data) ==
    IF kind = "str" /\ Len(data) < MIN_HEADER_SIZE * 2
    THEN RaiseMsg("ValueError", "Raster hex data too short: {} chars, need at least {}",
                  << Len(data), MIN_HEADER_SIZE * 2 >>)
    ELSE IF kind = "str" /\ ~IsHex(Slice(data, 0, MIN_HEADER_SIZE * 2))
    THEN RaiseMsg("ValueError", "Invalid hex data for raster: {}", << >>)
    ELSE IF kind # "str" /\ Len(data) < MIN_HEADER_SIZE
    THEN RaiseMsg("ValueError", "Raster binary data too short: {} bytes, need at least {}",
                  << Len(data), MIN_HEADER_SIZE >>)
    ELSE LET bin_data == IF kind = "str" THEN Unhexlify(Slice(data, 0, MIN_HEADER_SIZE * 2))
                                         ELSE data
             data_str == IF kind = "str" THEN data ELSE Hexlify(data)
             byte_order == bin_data[1]
         IN  IF byte_order \notin {0, 1}
             THEN RaiseMsg("ValueError", "Invalid byte order in raster: {}, must be 0 or 1",
                           << byte_order >>)
             ELSE LET srid_bytes == Slice(bin_data, 53, 57)
                  IN  IF Len(srid_bytes) # 4
                      THEN RaiseMsg("ValueError",
                               "Could not extract SRID bytes from raster data, got {} bytes",
                               << Len(srid_bytes) >>)
                      ELSE SpatialElementInit("Raster", "str", data_str,
                               UnpackSigned(byte_order = 1, srid_bytes), TRUE)

\* ------------------------------------------------------------------ raster decoding

\* a table that reads pixel type 3 as an unsigned byte
PTYPE_AllUnsigned ==
    (0 :> [ptype |-> "?", psize |-> 1]) @@ (1 :> [ptype |-> "B", psize |-> 1])
    @@ (2 :> [ptype |-> "B", psize |-> 1]) @@ (3 :> [ptype |-> "B", psize |-> 1])
    @@ (4 :> [ptype |-> "B", psize |-> 1]) @@ (5 :> [ptype |-> "h", psize |-> 2])
    @@ (6 :> [ptype |-> "H", psize |-> 2]) @@ (7 :> [ptype |-> "i", psize |-> 4])
    @@ (8 :> [ptype |-> "I", psize |-> 4]) @@ (10 :> [ptype |-> "f", psize |-> 4])
    @@ (11 :> [ptype |-> "d", psize |-> 8])

\* _PTYPE: the struct format and the size in bytes of each pixel type
PTYPE ==
    (0 :> [ptype |-> "?", psize |-> 1]) @@ (1 :> [ptype |-> "B", psize |-> 1])
    @@ (2 :> [ptype |-> "B", psize |-> 1]) @@ (3 :> [ptype |-> "b", psize |-> 1])
    @@ (4 :> [ptype |-> "B", psize |-> 1]) @@ (5 :> [ptype |-> "h", psize |-> 2])
    @@ (6 :> [ptype |-> "H", psize |-> 2]) @@ (7 :> [ptype |-> "i", psize |-> 4])
    @@ (8 :> [ptype |-> "I", psize |-> 4]) @@ (10 :> [ptype |-> "f", psize |-> 4])
    @@ (11 :> [ptype |-> "d", psize |-> 8])

\* _ENDIANNESS
ENDIANNESS == (0 :> ">") @@ (1 :> "<")

\* _format_e(endianness, struct_format), for the endianness 0 or 1 its callers
\* pass: the byte order and the format character
FormatE(endianness, struct_format) ==
    [order |-> ENDIANNESS[endianness], fmt |-> struct_format]

\* struct.unpack taking every field as big-endian
BigEndian_Ignored(order, b) == b

\* the bytes of a field, most significant first
BigEndian(order, b) ==
    IF order = "<" THEN [i \in 1..Len(b) |-> b[Len(b) + 1 - i]] ELSE b

\* struct.unpack(format, b)[0] for the formats of the decoder. An integer is a
\* Python int; True and False are the ints 1 and 0 they equal; a float is
\* kept as its IEEE-754 bits, most significant byte first.
Unpack(format, b) ==
    LET be == BigEndian(format.order, b)
        f == format.fmt
    IN  IF f = "?" THEN PyInt(IF be[1] = 0 THEN 0 ELSE 1)
        ELSE IF f = "B" THEN PyInt(be[1])
        ELSE IF f = "b" THEN PyInt(IF be[1] >= 128 THEN be[1] - 256 ELSE be[1])
        ELSE IF f = "H" THEN PyInt(be[1] * 256 + be[2])
        ELSE IF f = "h" THEN PyInt(IF be[1] >= 128 THEN be[1] * 256 + be[2] - 65536
                                                   ELSE be[1] * 256 + be[2])
        ELSE IF f = "I" THEN UnpackI(">I", be)
        ELSE IF f = "i" THEN UnpackSigned(FALSE, be)
        ELSE [bits |-> be]

\* a model-checker integer for a Python int below 2^15 in size
IntOf(v) == v.hi * 65536 + v.lo

\* what a decoder call gives: the function called, "" or the exception
\* raised, its message, the value returned (none after an exception), and
\* the offset reached in the data
NoDecoded == [fn |-> "none", err |-> "", msg |-> NoMsg, ret |-> << >>, offset |-> 0]
Return(fn, v, offset) ==
    [fn |-> fn, err |-> "", msg |-> NoMsg, ret |-> << v >>, offset |-> offset]
Fail(fn, name, text, args, offset) ==
    [fn |-> fn, err |-> name, msg |-> Msg(text, args), ret |-> << >>, offset |-> offset]

\* the header parser taking the lowest bit of byte 0 for the endianness
wkbHeader_LowBit(raw) ==
    IF Len(raw) < MIN_HEADER_SIZE
    THEN Fail("wkbHeader", "ValueError", "Raster data too short: {} bytes, need at least {}",
              << Len(raw), MIN_HEADER_SIZE >>, 0)
    ELSE LET endianness == raw[1] % 2
         IN  IF endianness \notin {0, 1}
             THEN Fail("wkbHeader", "ValueError", "Invalid endianness value: {}, must be 0 or 1",
                       << endianness >>, 0)
             ELSE LET field(fmt, a, b) == Unpack(FormatE(endianness, fmt), Slice(raw, a, b))
                      header == [endianness |-> endianness,
                                 version |-> IntOf(field("H", 1, 3)),
                                 nbands |-> IntOf(field("H", 3, 5)),
                                 scaleX |-> field("d", 5, 13),
                                 scaleY |-> field("d", 13, 21),
                                 ipX |-> field("d", 21, 29),
                                 ipY |-> field("d", 29, 37),
                                 skewX |-> field("d", 37, 45),
                                 skewY |-> field("d", 45, 53),
                                 srid |-> field("i", 53, 57),
                                 width |-> IntOf(field("H", 57, 59)),
                                 height |-> IntOf(field("H", 59, 61))]
                  IN  IF header.width = 0 \/ header.height = 0
                      THEN Fail("wkbHeader", "ValueError", "Invalid dimensions: width={}, height={}",
                                << header.width, header.height >>, 0)
                      ELSE IF header.nbands = 0
                      THEN Fail("wkbHeader", "ValueError", "Raster must have at least one band",
                                << >>, 0)
                      ELSE Return("wkbHeader", header, 0)

\* wkbHeader(raw)
wkbHeader(raw) ==
    IF Len(raw) < MIN_HEADER_SIZE
    THEN Fail("wkbHeader", "ValueError", "Raster data too short: {} bytes, need at least {}",
              << Len(raw), MIN_HEADER_SIZE >>, 0)
    ELSE LET endianness == IF raw[1] >= 128 THEN raw[1] - 256 ELSE raw[1]
         IN  IF endianness \notin {0, 1}
             THEN Fail("wkbHeader", "ValueError", "Invalid endianness value: {}, must be 0 or 1",
                       << endianness >>, 0)
             ELSE LET field(fmt, a, b) == Unpack(FormatE(endianness, fmt), Slice(raw, a, b))
                      header == [endianness |-> endianness,
                                 version |-> IntOf(field("H", 1, 3)),
                                 nbands |-> IntOf(field("H", 3, 5)),
                                 scaleX |-> field("d", 5, 13),
                                 scaleY |-> field("d", 13, 21),
                                 ipX |-> field("d", 21, 29),
                                 ipY |-> field("d", 29, 37),
                                 skewX |-> field("d", 37, 45),
                                 skewY |-> field("d", 45, 53),
                                 srid |-> field("i", 53, 57),
                                 width |-> IntOf(field("H", 57, 59)),
                                 height |-> IntOf(field("H", 59, 61))]
                  IN  IF header.width = 0 \/ header.height = 0
                      THEN Fail("wkbHeader", "ValueError", "Invalid dimensions: width={}, height={}",
                                << header.width, header.height >>, 0)
                      ELSE IF header.nbands = 0
                      THEN Fail("wkbHeader", "ValueError", "Raster must have at least one band",
                                << >>, 0)
                      ELSE Return("wkbHeader", header, 0)

\* read_band taking the samples column by column
read_band_ColumnMajor(data, offset, pixtype, height, width, endianness) ==
    IF pixtype \notin DOMAIN PTYPE
    THEN Fail("read_band", "ValueError", "Invalid pixel type: {}", << pixtype >>, offset)
    ELSE LET ptype == PTYPE[pixtype].ptype
             psize == PTYPE[pixtype].psize
             required_size == offset + 1 + (width * height * psize)
         IN  IF Len(data) < required_size
             THEN Fail("read_band", "ValueError",
                       "Raster data too short for band: len={}, required={} (offset={}, width={}, height={}, pixelsize={})",
                       << Len(data), required_size, offset, width, height, psize >>, offset)
             ELSE LET pix_data == Slice(data, offset + 1, offset + 1 + width * height * psize)
                      band == [i \in 1..height |-> [j \in 1..width |->
                                  Unpack(FormatE(endianness, ptype),
                                         Slice(pix_data, ((j - 1) * height + (i - 1)) * psize,
                                                         ((j - 1) * height + i) * psize))]]
                  IN  Return("read_band", band, offset)

\* read_band giving an empty band when the data ends before the band does
read_band_Truncates(data, offset, pixtype, height, width, endianness) ==
    IF pixtype \notin DOMAIN PTYPE
    THEN Fail("read_band", "ValueError", "Invalid pixel type: {}", << pixtype >>, offset)
    ELSE LET ptype == PTYPE[pixtype].ptype
             psize == PTYPE[pixtype].psize
             required_size == offset + 1 + (width * height * psize)
         IN  IF Len(data) < required_size
             THEN Return("read_band", << >>, offset)
             ELSE LET pix_data == Slice(data, offset + 1, offset + 1 + width * height * psize)
                      band == [i \in 1..height |-> [j \in 1..width |->
                                  Unpack(FormatE(endianness, ptype),
                                         Slice(pix_data, ((i - 1) * width + (j - 1)) * psize,
                                                         ((i - 1) * width + j) * psize))]]
                  IN  Return("read_band", band, offset)

\* read_band(data, offset, pixtype, height, width, endianness)
read_band(data, offset, pixtype, height, width, endianness) ==
    IF pixtype \notin DOMAIN PTYPE
    THEN Fail("read_band", "ValueError", "Invalid pixel type: {}", << pixtype >>, offset)
    ELSE LET ptype == PTYPE[pixtype].ptype
             psize == PTYPE[pixtype].psize
             required_size == offset + 1 + (width * height * psize)
         IN  IF Len(data) < required_size
             THEN Fail("read_band", "ValueError",
                       "Raster data too short for band: len={}, required={} (offset={}, width={}, height={}, pixelsize={})",
                       << Len(data), required_size, offset, width, height, psize >>, offset)
             ELSE LET pix_data == Slice(data, offset + 1, offset + 1 + width * height * psize)
                      band == [i \in 1..height |-> [j \in 1..width |->
                                  Unpack(FormatE(endianness, ptype),
                                         Slice(pix_data, ((i - 1) * width + (j - 1)) * psize,
                                                         ((i - 1) * width + j) * psize))]]
                  IN  Return("read_band", band, offset)

\* a loop that decodes every band with the pixel type of the first band
RECURSIVE ReadBands_FirstType(_, _, _, _, _)
ReadBands_FirstType(raw, h, i, offset, img) ==
    IF i = h.nbands THEN Return("wkbImage", img, offset)
    ELSE IF offset + 1 >= Len(raw)
    THEN Fail("wkbImage", "ValueError", "Raster data too short for band {} header",
              << i + 1 >>, offset)
    ELSE LET band_type == IntOf(Unpack(FormatE(h.endianness, "b"),
                                       Slice(raw, MIN_HEADER_SIZE, MIN_HEADER_SIZE + 1)))
             pixtype == band_type - 64
         IN  IF pixtype \notin DOMAIN PTYPE
             THEN Fail("wkbImage", "ValueError", "Invalid pixel type {} (band type {}) for band {}",
                       << pixtype, band_type, i + 1 >>, offset)
             ELSE LET psize == PTYPE[pixtype].psize
                      band == read_band(raw, offset, pixtype, h.height, h.width, h.endianness)
                  IN  IF band.err # ""
                      THEN Fail("wkbImage", "ValueError",
                                "Failed to read band {}: Raster data too short for band: len={}, required={} (offset={}, width={}, height={}, pixelsize={})",
                                << i + 1 >> \o band.msg.args, offset)
                      ELSE ReadBands_FirstType(raw, h, i + 1,
                                               offset + 1 + h.width * h.height * psize,
                                               Append(img, band.ret[1]))

\* the loop of wkbImage over the bands, from band i (counted from 0) on
RECURSIVE ReadBands(_, _, _, _, _)
ReadBands(raw, h, i, offset, img) ==
    IF i = h.nbands THEN Return("wkbImage", img, offset)
    ELSE IF offset + 1 >= Len(raw)
    THEN Fail("wkbImage", "ValueError", "Raster data too short for band {} header",
              << i + 1 >>, offset)
    ELSE LET band_type == IntOf(Unpack(FormatE(h.endianness, "b"), Slice(raw, offset, offset + 1)))
             pixtype == band_type - 64
         IN  IF pixtype \notin DOMAIN PTYPE
             THEN Fail("wkbImage", "ValueError", "Invalid pixel type {} (band type {}) for band {}",
                       << pixtype, band_type, i + 1 >>, offset)
             ELSE LET psize == PTYPE[pixtype].psize
                      band == read_band(raw, offset, pixtype, h.height, h.width, h.endianness)
                  IN  IF band.err # ""
                      THEN Fail("wkbImage", "ValueError",
                                IF band.msg.text = "Invalid pixel type: {}"
                                THEN "Failed to read band {}: Invalid pixel type: {}"
                                ELSE "Failed to read band {}: Raster data too short for band: len={}, required={} (offset={}, width={}, height={}, pixelsize={})",
                                << i + 1 >> \o band.msg.args, offset)
                      ELSE ReadBands(raw, h, i + 1, offset + 1 + h.width * h.height * psize,
                                     Append(img, band.ret[1]))

\* wkbImage(raster_data), use_numpy left False; kind tells str from bytes
wkbImage(kind, raster_data) ==
    IF kind = "str" /\ ~IsHex(raster_data)
    THEN Fail("wkbImage", "ValueError", "Failed to decode raster data: {}", << >>, 0)
    ELSE LET raw == IF kind = "str" THEN Unhexlify(raster_data) ELSE raster_data
             h == wkbHeader(raw)
         IN  IF h.err # "" THEN [h EXCEPT !.fn = "wkbImage"]
             ELSE ReadBands(raw, h.ret[1], 0, MIN_HEADER_SIZE, << >>)

\* ------------------------------------------------------------------ description, equality

\* the desc property of the three classes
Desc(self) ==
    IF self.cls = "WKB" THEN WkbToHex(self.kind, self.data) ELSE self.data

\* _SpatialElement.__eq__
Eq(self, o) ==
    /\ self.extended = o.extended
    /\ self.srid = o.srid
    /\ Desc(self) = Desc(o)

\* _SpatialElement.__hash__: the tuple that is hashed
HashKey(self) == << Desc(self), self.srid, self.extended >>

\* _SpatialElement.__getstate__: srid, str(self) which is the description, extended
GetState(self) == [srid |-> self.srid, data |-> Desc(self), extended |-> self.extended]

\* _data_from_desc of the three classes: WKBElement unhexlifies the
\* description, which raises when it is no hexadecimal string; WKTElement and
\* RasterElement return it unchanged
DataFromDesc(cls, desc) ==
    IF cls = "WKB"
    THEN IF IsHex(desc) THEN [err |-> "", kind |-> "bytes", data |-> WkbDataFromDesc(desc)]
                        ELSE [err |-> "binascii.Error", kind |-> "bytes", data |-> << >>]
    ELSE [err |-> "", kind |-> "str", data |-> desc]

\* _SpatialElement.__setstate__ on a fresh instance of cls, no constructor run
SetState(cls, state) ==
    LET d == DataFromDesc(cls, state.data)
    IN  IF d.err # "" THEN Raise(d.err)
        ELSE Ok([cls |-> cls, kind |-> d.kind, data |-> d.data, srid |-> state.srid,
                 extended |-> state.extended])

\* ------------------------------------------------------------------ inputs

\* byte 0 of a geometry payload: big endian, little endian
Orders == {0, 1}

\* type words, most significant byte first: a point, a point with the SRID bit,
\* a type whose low byte looks like the SRID bit in the other byte order, a point
\* with the Z flag and the SRID bit, a point with the Z flag, zero, and a point
\* with the Z flag, the M flag and the SRID bit
TypeWords == { << 0, 0, 0, 1 >>, << 32, 0, 0, 1 >>, << 0, 0, 0, 32 >>,
               << 160, 0, 0, 1 >>, << 128, 0, 0, 1 >>, << 0, 0, 0, 0 >>,
               << 224, 0, 0, 1 >> }

\* SRID words, most significant byte first: 4326, 2^32 - 1, 0
SridWords == { << 0, 0, 16, 230 >>, << 255, 255, 255, 255 >>, << 0, 0, 0, 0 >> }

\* the 4 bytes of a word in the byte order a payload declares
Encode(order, w) == IF order = 0 THEN w ELSE << w[4], w[3], w[2], w[1] >>

\* the i-th byte of a geometry body: 171, 228, 29, ...
BodyByte(i) == (57 * i + 114) % 256

Bodies == { [i \in 1..n |-> BodyByte(i)] : n \in 0..MaxBody }

\* what follows the type word: nothing, one byte, or an SRID word and a body
Tails(order) ==
    { << >>, << 9 >> } \cup { Encode(order, w) \o b : w \in SridWords, b \in Bodies }

\* payloads without a complete type word
ShortPayloads == { << >>, << 1 >>, << 0, 0, 0 >> }

WkbPayloads ==
    ShortPayloads \cup
    UNION { { << o >> \o Encode(o, t) \o tail : t \in TypeWords, tail \in Tails(o) } :
              o \in Orders }

\* the srid arguments: the default -1, 0, 4326, 2^32 - 1, and two that no
\* uint32 holds, -2 and 2^32
SridArgs == { PyInt(-1), PyInt(0), PyInt(4326), W32(65535, 65535), PyInt(-2),
              W32(65536, 0) }

ExtArgs == { "None", "True", "False" }

\* a payload as the caller hands it over: bytes, lowercase hex, uppercase hex
Forms == { "bytes", "hex", "HEX" }
FormKind(form) == IF form = "bytes" THEN "bytes" ELSE "str"
FormData(form, p) ==
    IF form = "bytes" THEN p
    ELSE IF form = "hex" THEN Hexlify(p)
    ELSE Upper(Hexlify(p))

\* the bytes an input's data stands for
PayloadOf(kind, data) == IF kind = "str" THEN Unhexlify(data) ELSE data

NoInput == [cls |-> "none", kind |-> "str", data |-> << >>, srid |-> PyInt(-1),
            ext |-> "None"]

WkbInputs ==
    { [cls |-> "WKB", kind |-> FormKind(f), data |-> FormData(f, p), srid |-> s, ext |-> x] :
        f \in Forms, p \in WkbPayloads, s \in SridArgs, x \in ExtArgs }

\* the characters of a WKT body: "P", ";", " ", newline
WktChars == { 80, chSemi, chSpace, chNewline }

WktBodies == UNION { [1..n -> WktChars] : n \in 0..MaxWkt }

\* what precedes the body: nothing, "SRID=4326;", "SRID=0;", "SRID=4326; ",
\* "SRID=;", "SRID=P;", "SRID=4326", "SRID=-5;", "SRID=1_0;", "SRID= 7;",
\* "SRID=4P;"
WktPrefixes ==
    { << >>,
      SridPrefix \o << 52, 51, 50, 54, chSemi >>,
      SridPrefix \o << 48, chSemi >>,
      SridPrefix \o << 52, 51, 50, 54, chSemi, chSpace >>,
      SridPrefix \o << chSemi >>,
      SridPrefix \o << 80, chSemi >>,
      SridPrefix \o << 52, 51, 50, 54 >>,
      SridPrefix \o << chMinus, 53, chSemi >>,
      SridPrefix \o << 49, chUnderscore, 48, chSemi >>,
      SridPrefix \o << chSpace, 55, chSemi >>,
      SridPrefix \o << 52, 80, chSemi >> }

WktInputs ==
    { [cls |-> "WKT", kind |-> "str", data |-> p \o b, srid |-> s, ext |-> x] :
        p \in WktPrefixes, b \in WktBodies, s \in SridArgs, x \in ExtArgs }

\* byte 0 of a raster payload: big endian, little endian, and one that is neither
RasterOrders == { 0, 1, 2 }

\* the raster SRIDs, most significant byte first: 4326, -1, 0, -2^31
RasterSridWords == SridWords \cup { << 128, 0, 0, 0 >> }

\* the 61-byte header of a raster of version 0 with one band, a zero affine
\* transform, the given SRID, and width = height = 1
RasterHeader(order, w) ==
    << order >>
    \o (IF order = 0 THEN << 0, 0, 0, 1 >> ELSE << 0, 0, 1, 0 >>)
    \o [i \in 1..48 |-> 0]
    \o Encode(order, w)
    \o (IF order = 0 THEN << 0, 1, 0, 1 >> ELSE << 1, 0, 1, 0 >>)

\* the header cut to 40 and 60 bytes, whole, and followed by up to MaxBand bytes
RasterPayloads ==
    { Slice(RasterHeader(o, w) \o [i \in 1..MaxBand |-> BodyByte(i)], 0, n) :
        o \in RasterOrders, w \in RasterSridWords,
        n \in {40, 60} \cup (MIN_HEADER_SIZE..(MIN_HEADER_SIZE + MaxBand)) }

RasterInputs ==
    { [cls |-> "Raster", kind |-> FormKind(f), data |-> FormData(f, p),
       srid |-> PyInt(-1), ext |-> "None"] : f \in Forms, p \in RasterPayloads }

\* ---- the rasters handed to the decoder

\* a 16-bit field and a field given most significant byte first
Enc16(order, n) == IF order = 0 THEN << n \div 256, n % 256 >> ELSE << n % 256, n \div 256 >>
EncBytes(order, be) == IF order = 0 THEN be ELSE [i \in 1..Len(be) |-> be[Len(be) + 1 - i]]

\* the double 1.0, most significant byte first
F64One == << 63, 240, 0, 0, 0, 0, 0, 0 >>

\* the header of a raster of version 0 with scale 1.0 x 1.0 and no skew
ImageHeader(order, nbands, w, width, height) ==
    << order >> \o Enc16(order, 0) \o Enc16(order, nbands)
    \o EncBytes(order, F64One) \o EncBytes(order, F64One) \o [i \in 1..32 |-> 0]
    \o Encode(order, w) \o Enc16(order, width) \o Enc16(order, height)

\* the sample bytes of the bands: 0/1 samples, or bytes of every size (no
\* four or eight of them in a row are the bits of a NaN)
BitPattern == << 1, 0, 0, 1, 1, 1, 0, 1 >>
BytePattern == << 255, 2, 128, 1, 200, 1, 0, 64 >>

\* rasters of one band take their samples from either, the others from the second
SamplePatterns(m) == IF Len(m) = 1 THEN { BitPattern, BytePattern } ELSE { BytePattern }

\* the metadata bytes: 64 + a pixel type, and bytes that name no pixel type
SupportedMeta == { 64 + t : t \in DOMAIN PTYPE }
UnsupportedMeta == { 73, 76, 200, 9 }
FirstMeta == SupportedMeta \cup UnsupportedMeta
NextMeta == { 69, 73 }

\* the metadata bytes of the bands of one raster
MetaLists ==
    { m \in UNION { [1..n -> FirstMeta \cup NextMeta] : n \in 1..MaxBands } :
        \A i \in 2..Len(m) : m[i] \in NextMeta }

\* the size of the samples that follow a metadata byte
MetaSize(b) == IF b \in SupportedMeta THEN PTYPE[b - 64].psize ELSE 1

\* the bands with metadata bytes m of a raster of n pixels, the samples
\* taken from pattern pat
RECURSIVE BandBytes(_, _, _, _)
BandBytes(m, n, pat, start) ==
    IF m = << >> THEN << >>
    ELSE LET len == n * MetaSize(m[1])
         IN  << m[1] >> \o [k \in 1..len |-> pat[((start + k - 1) % Len(pat)) + 1]]
             \o BandBytes(Tail(m), n, pat, start + len)

\* whole rasters: each byte order, sides 1..MaxSide, every list of bands
WholeImages ==
    UNION { { ImageHeader(o, Len(m), << 0, 0, 16, 230 >>, w, h) \o BandBytes(m, w * h, pat, 0) :
                o \in Orders, w \in 1..MaxSide, h \in 1..MaxSide, pat \in SamplePatterns(m) } :
            m \in MetaLists }

\* a raster whole, with one byte more, one byte less, cut after the first
\* metadata byte and cut after the header
Cuts(p) ==
    { p, p \o << 7 >>, Slice(p, 0, Len(p) - 1), Slice(p, 0, MIN_HEADER_SIZE + 1),
      Slice(p, 0, MIN_HEADER_SIZE) }

\* rasters the header parser refuses or that name no band: a byte order that
\* is neither 0 nor 1, no band, a side of 0, and headers cut short
OddImages ==
    { ImageHeader(o, 1, << 0, 0, 16, 230 >>, 1, 1) \o << 64, 1 >> : o \in { 2, 255 } }
    \cup { ImageHeader(o, 0, << 0, 0, 16, 230 >>, 1, 1) \o t : o \in Orders, t \in { << >>, << 64, 1 >> } }
    \cup { ImageHeader(o, 1, << 0, 0, 16, 230 >>, d[1], d[2]) \o << 64, 1 >> :
              o \in Orders, d \in { << 0, 1 >>, << 1, 0 >> } }
    \cup { Slice(ImageHeader(o, 1, << 0, 0, 16, 230 >>, 1, 1), 0, n) :
              o \in Orders \cup { 2 }, n \in { 0, 1, 40, 60 } }

\* a hexadecimal string spoilt after its first character: by a character that is
\* no digit at the end, by a lone digit at the end, by a character that is no
\* digit in the place of the second one
Spoilt(hex) ==
    { hex \o << 122, 122 >>, hex \o << 48 >> }
    \cup (IF Len(hex) >= 2 THEN { [hex EXCEPT ![2] = 122] } ELSE { })

\* the forms a raster is given in: bytes and lowercase digits, the odd ones in
\* uppercase digits and spoilt as well
ImageInputs ==
    { [cls |-> "Raster", kind |-> FormKind(f), data |-> FormData(f, p),
       srid |-> PyInt(-1), ext |-> "None"] :
        f \in { "bytes", "hex" }, p \in UNION { Cuts(q) : q \in WholeImages } }
    \cup { [cls |-> "Raster", kind |-> FormKind(f), data |-> FormData(f, p),
              srid |-> PyInt(-1), ext |-> "None"] : f \in Forms, p \in OddImages }
    \cup { [cls |-> "Raster", kind |-> "str", data |-> d, srid |-> PyInt(-1), ext |-> "None"] :
              d \in UNION { Spoilt(Hexlify(p)) : p \in OddImages \cup
                               { ImageHeader(1, 1, << 0, 0, 16, 230 >>, 1, 1) \o << 64, 1 >> } } }

\* ---- hexadecimal strings that are spoilt

\* a hexadecimal string spoilt after its header: the second character after
\* the first n replaced by one that is no digit
SpoiltAfter(hex, n) == IF Len(hex) >= n + 2 THEN { [hex EXCEPT ![n + 2] = 122] } ELSE { }

\* a point with its body and a point with SRID 4326, both little-endian
SpoiltPayloads ==
    { << 1, 1, 0, 0, 0 >> \o [i \in 1..MaxBody |-> BodyByte(i)],
      << 1, 1, 0, 0, 32, 230, 16, 0, 0 >> \o [i \in 1..MaxBody |-> BodyByte(i)] }

SpoiltInputs ==
    { [cls |-> "WKB", kind |-> "str", data |-> d, srid |-> s, ext |-> x] :
        d \in UNION { Spoilt(Hexlify(p)) \cup SpoiltAfter(Hexlify(p), 18) : p \in SpoiltPayloads },
        s \in SridArgs, x \in ExtArgs }
    \cup { in \in ImageInputs : in.kind = "str" /\ ~IsHex(in.data) }

\* the right-hand operands an element built from in is compared with: the same
\* payload in every form, or one character longer, with the same or another
\* srid and extended argument
OtherInputs(in) ==
    IF in.cls = "WKT"
    THEN { [in EXCEPT !.data = d, !.srid = s, !.ext = x] :
             d \in {in.data, in.data \o << 80 >>},
             s \in {in.srid, PyInt(4326)}, x \in {in.ext, "True"} }
    ELSE { [in EXCEPT !.kind = FormKind(f), !.data = FormData(f, p), !.srid = s, !.ext = x] :
             f \in Forms,
             p \in {PayloadOf(in.kind, in.data), PayloadOf(in.kind, in.data) \o << 171 >>},
             s \in {in.srid, PyInt(4326)}, x \in {in.ext, "True"} }

\* the constructor call an input stands for
Construct(in) ==
    IF in.cls = "WKB" THEN WKBElementInit(in.kind, in.data, in.srid, in.ext)
    ELSE IF in.cls = "WKT" THEN WKTElementInit(in.data, in.srid, in.ext)
    ELSE RasterElementInit(in.kind, in.data)

\* ------------------------------------------------------------------ the state machine

Init ==
    /\ input = NoInput
    /\ trace = << >>
    /\ ops = << >>
    /\ err = ""
    /\ errmsg = NoMsg
    /\ decoded = NoDecoded
    /\ otherInput = NoInput
    /\ other = NoElem
    /\ eqres = "none"

Last == trace[Len(trace)]

\* a constructor call
New(in) ==
    /\ input' = in
    /\ \E r \in { Construct(in) } :
           /\ err' = r.err
           /\ errmsg' = r.msg
           /\ trace' = IF r.err = "" THEN << r.e >> ELSE << >>
    /\ UNCHANGED << ops, decoded, otherInput, other, eqres >>

NewWKB == input = NoInput /\ \E in \in WkbInputs : New(in)

\* a conversion that overwrites its receiver with what it returns
Call_InPlace(name, r) ==
    /\ err' = r.err
    /\ errmsg' = r.msg
    /\ trace' = IF r.err = "" THEN [trace EXCEPT ![Len(trace)] = r.e] ELSE trace
    /\ ops' = Append(ops, name)
    /\ UNCHANGED << input, decoded, otherInput, other, eqres >>

\* a conversion called on the latest element
Call(name, r) ==
    /\ err' = r.err
    /\ errmsg' = r.msg
    /\ trace' = IF r.err = "" THEN Append(trace, r.e) ELSE trace
    /\ ops' = Append(ops, name)
    /\ UNCHANGED << input, decoded, otherInput, other, eqres >>

CanCall(cls) ==
    /\ trace # << >>
    /\ err = ""
    /\ eqres = "none"
    /\ decoded = NoDecoded
    /\ Len(ops) < MaxOps
    /\ Last.cls = cls

CallAsWkb == CanCall("WKB") /\ \E r \in { AsWkb(Last) } : Call("as_wkb", r)

CallAsEwkb == CanCall("WKB") /\ \E r \in { AsEwkb(Last) } : Call("as_ewkb", r)

NewWKT == input = NoInput /\ \E in \in WktInputs : New(in)

NewRaster == input = NoInput /\ \E in \in RasterInputs : New(in)

\* a constructor handed a hexadecimal string that is spoilt
NewSpoilt == input = NoInput /\ \E in \in SpoiltInputs : New(in)

\* a raster handed to the constructor and then to the decoder
NewImage == input = NoInput /\ \E in \in ImageInputs : New(in)

CanDecode ==
    /\ input.cls = "Raster"
    /\ decoded = NoDecoded
    /\ eqres = "none"

\* wkbHeader called on the bytes given to the constructor
CallWkbHeader ==
    /\ CanDecode
    /\ input.kind = "bytes"
    /\ decoded' = wkbHeader(input.data)
    /\ UNCHANGED << input, trace, ops, err, errmsg, otherInput, other, eqres >>

\* wkbImage called on the data given to the constructor
CallWkbImage ==
    /\ CanDecode
    /\ decoded' = wkbImage(input.kind, input.data)
    /\ UNCHANGED << input, trace, ops, err, errmsg, otherInput, other, eqres >>

CallAsWkt == CanCall("WKT") /\ \E r \in { AsWkt(Last) } : Call("as_wkt", r)

CallAsEwkt == CanCall("WKT") /\ \E r \in { AsEwkt(Last) } : Call("as_ewkt", r)

\* self == other, for the element just constructed and another one
Compare ==
    /\ trace # << >>
    /\ ops = << >>
    /\ err = ""
    /\ eqres = "none"
    /\ decoded = NoDecoded
    /\ \E in \in OtherInputs(input) :
         \E r \in { Construct(in) } :
           /\ r.err = ""
           /\ otherInput' = in
           /\ other' = r.e
           /\ eqres' = IF Eq(Last, r.e) THEN "True" ELSE "False"
    /\ UNCHANGED << input, trace, ops, err, errmsg, decoded >>

\* a fresh instance restored from the state of the latest element, and
\* compared with it: f.__setstate__(e.__getstate__()), e == f
Restore ==
    /\ trace # << >>
    /\ err = ""
    /\ eqres = "none"
    /\ decoded = NoDecoded
    /\ \E r \in { SetState(Last.cls, GetState(Last)) } :
           /\ err' = r.err
           /\ errmsg' = r.msg
           /\ other' = IF r.err = "" THEN r.e ELSE other
           /\ eqres' = IF r.err # "" THEN "none"
                       ELSE IF Eq(Last, r.e) THEN "True" ELSE "False"
    /\ ops' = Append(ops, "__setstate__")
    /\ UNCHANGED << input, trace, decoded, otherInput >>

NextWKB == NewWKB \/ CallAsWkb \/ CallAsEwkb

SpecWKB == Init /\ [][NextWKB]_vars

NextWKT == NewWKT \/ CallAsWkt \/ CallAsEwkt

SpecWKT == Init /\ [][NextWKT]_vars

NextConv == NewWKB \/ NewWKT \/ CallAsWkb \/ CallAsEwkb \/ CallAsWkt \/ CallAsEwkt

SpecConv == Init /\ [][NextConv]_vars

NextEq == NewWKB \/ NewWKT \/ NewRaster \/ Compare

SpecEq == Init /\ [][NextEq]_vars

NextRaster == NewRaster \/ Compare

SpecRaster == Init /\ [][NextRaster]_vars

NextDecode == NewImage \/ CallWkbHeader \/ CallWkbImage

SpecDecode == Init /\ [][NextDecode]_vars

NextInvalid == NewSpoilt \/ CallAsWkb \/ CallAsEwkb \/ CallWkbImage

SpecInvalid == Init /\ [][NextInvalid]_vars

NextEndian == NewWKB \/ NewImage \/ CallWkbHeader \/ CallWkbImage

SpecEndian == Init /\ [][NextEndian]_vars

NextState ==
    \/ NewWKB \/ NewWKT \/ NewRaster \/ NewSpoilt
    \/ CallAsWkb \/ CallAsEwkb
    \/ Restore

SpecState == Init /\ [][NextState]_vars

Next ==
    \/ NewWKB \/ NewWKT \/ NewRaster \/ NewImage \/ NewSpoilt
    \/ CallAsWkb \/ CallAsEwkb \/ CallAsWkt \/ CallAsEwkt
    \/ CallWkbHeader \/ CallWkbImage
    \/ Compare \/ Restore

Spec == Init /\ [][Next]_vars

\* ------------------------------------------------------------------ what the claims speak of

\* the payload handed to the constructor, as bytes
InPayload == PayloadOf(input.kind, input.data)

\* the type word and the SRID word of a payload, most significant byte first
TypeWordBE(p) == IF p[1] = 0 THEN SubSeq(p, 2, 5) ELSE << p[5], p[4], p[3], p[2] >>
SridWordBE(p) == IF p[1] = 0 THEN SubSeq(p, 6, 9) ELSE << p[9], p[8], p[7], p[6] >>

\* the integer a word stands for, and the word of an integer in 0..2^32-1
WordValue(w) == W32(w[1] * 256 + w[2], w[3] * 256 + w[4])
WordOf(v) == << v.hi \div 256, v.hi % 256, v.lo \div 256, v.lo % 256 >>

InU32(v) == v.hi \in 0..65535

\* bit 0x20000000 of the type word
HasSridBit(p) == Len(p) >= 5 /\ (TypeWordBE(p)[1] \div 32) % 2 = 1

PlainWkb(p) == Len(p) >= 5 /\ p[1] \in {0, 1} /\ ~HasSridBit(p)
Ewkb(p) == Len(p) >= 9 /\ p[1] \in {0, 1} /\ HasSridBit(p)

\* e holds the payload the constructor was given, in the form it was given
HoldsInput(e) ==
    /\ e.kind = input.kind
    /\ PayloadOf(e.kind, e.data) = InPayload
    /\ (input.data = Lower(input.data) => e.data = input.data)

\* ------------------------------------------------------------------ C1

C1_Pre ==
    /\ input.cls = "WKB"
    /\ input.ext \in {"None", "False"}
    /\ PlainWkb(InPayload)
    /\ ops \in { << "as_ewkb" >>, << "as_ewkb", "as_wkb" >> }

C1_Holds == err = "" /\ (Len(ops) = 2 => Len(trace) = 3 /\ HoldsInput(trace[3]))

\* C1 as stated: for a plain WKB buffer and ANY integer srid, as_ewkb() and
\* then as_wkb() succeed and give back the original buffer.
C1_AnySrid == C1_Pre => C1_Holds

\* C1, amended: for a plain WKB buffer (SRID bit clear) and an srid that is -1
\* or in 0..2^32-1, x.as_ewkb().as_wkb() succeeds and its payload equals the
\* original buffer: stripSrid(injectSrid(buffer, s)) = buffer.
C1_RoundTrip == (C1_Pre /\ (IsMinusOne(input.srid) \/ InU32(input.srid))) => C1_Holds

C1_Witness ==
    /\ C1_Pre
    /\ Len(ops) = 2
    /\ err = ""
    /\ input.srid = PyInt(4326)
    /\ trace[2].extended
    /\ Len(trace[2].data) > Len(input.data)
    /\ trace[3].data = input.data

\* ------------------------------------------------------------------ C2

C2_Pre ==
    /\ input.cls = "WKB"
    /\ IsMinusOne(input.srid)
    /\ input.ext = "None"
    /\ Ewkb(InPayload)
    /\ ops \in { << "as_wkb" >>, << "as_wkb", "as_ewkb" >> }

\* C2: for an EWKB buffer b that embeds an SRID, the element built from b with
\* default arguments gives b back after as_wkb() and then as_ewkb():
\* injectSrid(stripSrid(b), srid) = b.
C2_RoundTrip ==
    C2_Pre => (err = "" /\ (Len(ops) = 2 => Len(trace) = 3 /\ HoldsInput(trace[3])))

C2_Witness ==
    /\ C2_Pre
    /\ Len(ops) = 2
    /\ err = ""
    /\ ~trace[2].extended
    /\ Len(trace[2].data) < Len(input.data)
    /\ trace[3].extended
    /\ trace[3].data = input.data

\* ------------------------------------------------------------------ C3

C3_Pre ==
    /\ input.cls = "WKB"
    /\ input.ext = "None"
    /\ PlainWkb(InPayload)
    /\ InU32(input.srid)
    /\ ops = << "as_ewkb" >>

\* byte e, the type word with bit 0x20000000, the SRID, the bytes from offset 5
C3_Expected ==
    LET p == InPayload
        t == TypeWordBE(p)
    IN  << p[1] >>
        \o Encode(p[1], << t[1] + 32, t[2], t[3], t[4] >>)
        \o Encode(p[1], WordOf(input.srid))
        \o SubSeq(p, 6, Len(p))

\* C3: as_ewkb() on a plain WKB buffer with endianness byte e, type word t and
\* SRID s in 0..2^32-1 gives exactly: e, the word t | 0x20000000, the word s,
\* both in the byte order e declares, then the original bytes from offset 5.
C3_InjectLayout ==
    C3_Pre =>
        /\ err = ""
        /\ Len(trace) = 2
        /\ trace[2].kind = input.kind
        /\ PayloadOf(trace[2].kind, trace[2].data) = C3_Expected
        /\ (input.data = Lower(input.data) =>
                trace[2].data = FormData(IF input.kind = "str" THEN "hex" ELSE "bytes",
                                         C3_Expected))
        /\ trace[2].extended
        /\ trace[2].srid = input.srid

\* type 0x00000001 with SRID 4326, little endian: 0x20000001 followed by 4326
C3_Witness ==
    /\ C3_Pre
    /\ err = ""
    /\ InPayload[1] = 1
    /\ TypeWordBE(InPayload) = << 0, 0, 0, 1 >>
    /\ input.srid = PyInt(4326)
    /\ SubSeq(PayloadOf(trace[2].kind, trace[2].data), 2, 9)
           = << 1, 0, 0, 32, 230, 16, 0, 0 >>

\* ------------------------------------------------------------------ C4

C4_Pre ==
    /\ input.cls = "WKB"
    /\ IsMinusOne(input.srid)
    /\ input.ext = "None"
    /\ Len(InPayload) >= 5
    /\ ops = << >>

\* C4: constructing a WKBElement with default arguments gives extended = TRUE
\* exactly when bit 0x20000000 of the type word (bytes 1..4, in the byte order
\* byte 0 declares) is set; srid is the uint32 at bytes 5..8 when extended and
\* -1 otherwise; bytes 5..8 need not exist when the bit is clear.
C4_ExtractSrid ==
    C4_Pre =>
        IF HasSridBit(InPayload)
        THEN Len(InPayload) >= 9 =>
                /\ err = ""
                /\ trace[1].extended
                /\ trace[1].srid = WordValue(SridWordBE(InPayload))
        ELSE /\ err = ""
             /\ ~trace[1].extended
             /\ IsMinusOne(trace[1].srid)

C4_Witness ==
    /\ C4_Pre
    /\ err = ""
    /\ InPayload[1] = 1
    /\ Len(InPayload) >= 9
    /\ trace[1].extended
    /\ trace[1].srid = PyInt(4326)

\* ------------------------------------------------------------------ C5

\* the text between "SRID=" and the first ";" of an EWKT string
WktSridText(d) == SubSeq(d, Len(SridPrefix) + 1, IndexOf(d, chSemi) - 1)

\* "SRID=<digits>;" and a body without ";"
IsEwktText(d) ==
    /\ StartsWith(d, SridPrefix)
    /\ Count(d, chSemi) = 1
    /\ WktSridText(d) # << >>
    /\ \A i \in 1..Len(WktSridText(d)) : IsDigit(WktSridText(d)[i])

\* the SRID embedded in the data of e is e.srid
EmbedsItsSrid(e) ==
    IF e.cls = "WKB"
    THEN LET p == PayloadOf(e.kind, e.data)
         IN  /\ Len(p) >= 9
             /\ HasSridBit(p)
             /\ e.srid = WordValue(SridWordBE(p))
    ELSE IF e.cls = "WKT"
    THEN /\ StartsWith(e.data, SridPrefix)
         /\ Count(e.data, chSemi) >= 1
         /\ IntParse(WktSridText(e.data)).ok
         /\ IntParse(WktSridText(e.data)).v = e.srid
    ELSE TRUE

\* C5: for every WKBElement or WKTElement constructed with any arguments and
\* converted any number of times, whenever extended is true the srid attribute
\* equals the SRID embedded in data.
C5_SridMatchesData ==
    \* the constructor was given a well-formed payload and an srid that is -1
    \* or fits the format
    (/\ input.cls \in {"WKB", "WKT"}
     /\ input.cls = "WKB" => (PlainWkb(InPayload) \/ Ewkb(InPayload))
     /\ input.cls = "WKT" => (IsEwktText(input.data) \/ ~StartsWith(input.data, SridPrefix))
     /\ (IsMinusOne(input.srid) \/ InU32(input.srid))) =>
        \A i \in 1..Len(trace) : trace[i].extended => EmbedsItsSrid(trace[i])

\* ------------------------------------------------------------------ C6

\* the method of an element by name
ApplyOp(name, e) ==
    IF name = "as_wkb" THEN AsWkb(e)
    ELSE IF name = "as_ewkb" THEN AsEwkb(e)
    ELSE IF name = "as_wkt" THEN AsWkt(e)
    ELSE AsEwkt(e)

\* the calls names chained on the result r of a constructor
RECURSIVE Replay(_, _)
Replay(r, names) ==
    IF r.err # "" \/ names = << >> THEN r
    ELSE Replay(ApplyOp(Head(names), r.e), Tail(names))

\* the same constructor call with the payload as a hex string
AsHexInput(f) == [input EXCEPT !.kind = "str", !.data = FormData(f, input.data)]

\* C6: the WKBElement built from bytes p and the one built from the hex string
\* of p have the same extended flag and srid, and the same calls of as_wkb() /
\* as_ewkb() on each succeed together and return elements with the same srid,
\* extended flag and description; hex in gives hex out, bytes in gives binary out.
C6_HexLikeBytes ==
    (input.cls = "WKB" /\ input.kind = "bytes") =>
        \A f \in {"hex", "HEX"} :
            LET r == Replay(Construct(AsHexInput(f)), ops)
            IN  /\ (r.err = "") = (err = "")
                /\ err = "" =>
                      /\ r.e.srid = Last.srid
                      /\ r.e.extended = Last.extended
                      /\ Desc(r.e) = Desc(Last)
                      /\ r.e.kind = "str"
                      /\ Last.kind = "bytes"

C6_Witness ==
    /\ input.cls = "WKB"
    /\ input.kind = "bytes"
    /\ Ewkb(input.data)
    /\ IsMinusOne(input.srid)
    /\ ops = << "as_wkb", "as_ewkb" >>
    /\ err = ""
    /\ Len(trace[2].data) + 4 = Len(input.data)
    /\ Last.extended
    /\ Replay(Construct(AsHexInput("HEX")), ops).e.data # Hexlify(input.data)

\* ------------------------------------------------------------------ C7

\* two WKB constructor calls on the same payload with the same arguments
SameLogical(a, b) ==
    /\ a.cls = "WKB"
    /\ b.cls = "WKB"
    /\ PayloadOf(a.kind, a.data) = PayloadOf(b.kind, b.data)
    /\ a.srid = b.srid
    /\ a.ext = b.ext

\* the description string: the lowercase hex of a WKB payload, the data otherwise
DescriptionOf(e) ==
    IF e.cls = "WKB" THEN Hexlify(PayloadOf(e.kind, e.data)) ELSE e.data

\* C7: two elements compare equal exactly when their extended flag, srid and
\* description are equal; a WKBElement built from bytes and one built from the
\* same payload as a hex string (lowercase or uppercase), with the same srid
\* and extended arguments, compare equal and hash alike.
C7_Equality ==
    eqres # "none" =>
        /\ (eqres = "True") =
              (/\ trace[1].extended = other.extended
               /\ trace[1].srid = other.srid
               /\ DescriptionOf(trace[1]) = DescriptionOf(other))
        /\ SameLogical(input, otherInput) =>
              (eqres = "True" /\ HashKey(trace[1]) = HashKey(other))

C7_Witness ==
    /\ eqres = "True"
    /\ SameLogical(input, otherInput)
    /\ input.kind = "bytes"
    /\ otherInput.kind = "str"
    /\ otherInput.data # Lower(otherInput.data)
    /\ trace[1].extended

\* ------------------------------------------------------------------ C8

\* C8: a RasterElement holds its payload as lowercase hex text whether it was
\* built from bytes, lowercase hex or uppercase hex, so that elements built
\* from the same payload compare equal.
C8_LowercaseHex ==
    (input.cls = "Raster" /\ trace # << >>) =>
        /\ trace[1].data = Hexlify(InPayload)
        /\ (eqres # "none" /\ PayloadOf(otherInput.kind, otherInput.data) = InPayload) =>
              eqres = "True"

\* ------------------------------------------------------------------ C9

\* the signed integer a 32-bit word stands for
SignedValue(w) ==
    W32(w[1] * 256 + w[2] - (IF w[1] >= 128 THEN 65536 ELSE 0), w[3] * 256 + w[4])

\* bytes 53..56 of a raster payload, most significant byte first
RasterSridWordBE(p) ==
    IF p[1] = 0 THEN SubSeq(p, 54, 57) ELSE << p[57], p[56], p[55], p[54] >>

C9_Pre ==
    /\ input.cls = "Raster"
    /\ Len(InPayload) >= 61
    /\ InPayload[1] \in {0, 1}

\* C9: for a raster payload of at least 61 bytes whose byte 0 is 0 or 1, given
\* as bytes or as hex, the RasterElement has srid equal to the signed 32-bit
\* integer at bytes 53..56 in the byte order byte 0 declares, and extended is
\* true.
C9_RasterSrid ==
    C9_Pre =>
        /\ err = ""
        /\ trace[1].extended
        /\ trace[1].srid = SignedValue(RasterSridWordBE(InPayload))

C9_Witness ==
    /\ C9_Pre
    /\ input.kind = "str"
    /\ err = ""
    /\ trace[1].extended
    /\ trace[1].srid = W32(-32768, 0)

\* ------------------------------------------------------------------ C10

\* the position of the ";" that ends a prefix "SRID=<digits>;", 0 without one
PrefixEnd(d) ==
    IF /\ StartsWith(d, SridPrefix)
       /\ \E k \in 7..Len(d) : d[k] = chSemi /\ \A i \in 6..(k - 1) : IsDigit(d[i])
    THEN CHOOSE k \in 7..Len(d) : d[k] = chSemi /\ \A i \in 6..(k - 1) : IsDigit(d[i])
    ELSE 0

\* the number a run of decimal digits writes
RECURSIVE NatOf(_)
NatOf(ds) == IF ds = << >> THEN 0 ELSE 10 * NatOf(SubSeq(ds, 1, Len(ds) - 1)) + (ds[Len(ds)] - 48)

\* "SRID=<n>;<wkt>", the WKT holding no ";"
IsEwkt(d) == PrefixEnd(d) > 0 /\ Count(d, chSemi) = 1

\* C10: an EWKT string "SRID=<n>;<wkt>" constructed without an explicit srid,
\* extended omitted or True, gives srid = n and extended = TRUE; text without
\* the prefix and without srid gives srid = -1; an explicit srid is kept.
C10_WktSrid ==
    (input.cls = "WKT" /\ ops = << >>) =>
        /\ (IsEwkt(input.data) /\ IsMinusOne(input.srid) /\ input.ext \in {"None", "True"}) =>
              /\ err = ""
              /\ trace[1].extended
              /\ trace[1].srid = PyInt(NatOf(SubSeq(input.data, 6, PrefixEnd(input.data) - 1)))
        /\ (~StartsWith(input.data, SridPrefix) /\ IsMinusOne(input.srid)
                /\ input.ext \in {"None", "False"}) =>
              /\ err = ""
              /\ ~trace[1].extended
              /\ IsMinusOne(trace[1].srid)
        /\ ~IsMinusOne(input.srid) =>
              /\ err = ""
              /\ trace[1].srid = input.srid

C10_Witness ==
    /\ input.cls = "WKT"
    /\ ops = << >>
    /\ input.data = SridPrefix \o << 52, 51, 50, 54, chSemi, 80 >>
    /\ IsMinusOne(input.srid)
    /\ input.ext = "None"
    /\ err = ""
    /\ trace[1].extended
    /\ trace[1].srid = PyInt(4326)

\* ------------------------------------------------------------------ C11

\* the element the latest conversion was called on
Receiver == IF err = "" THEN trace[Len(trace) - 1] ELSE Last

\* what follows the ";" of "SRID=<n>;<body>"
EwktBody(d) == SliceFrom(d, PrefixEnd(d))

\* the integer "SRID=<n>;<body>" names
EwktSrid(d) == PyInt(NatOf(SubSeq(d, 6, PrefixEnd(d) - 1)))

C11_Pre ==
    /\ input.cls = "WKT"
    /\ IsEwkt(input.data)
    /\ IsMinusOne(input.srid)
    /\ input.ext \in {"None", "True"}

\* C11: for an extended WKTElement "SRID=<n>;<body>", as_wkt() returns a
\* non-extended element with data = <body> and srid = n, as_ewkt() on that
\* result returns an extended element with data = "SRID=<n>;" + <body>; and
\* as_ewkt() on any non-extended element with srid s # -1 returns data that
\* starts with "SRID=<s>;".
C11_EwktRoundTrip ==
    /\ (C11_Pre /\ ops = << "as_wkt" >>) =>
          /\ err = ""
          /\ ~Last.extended
          /\ Last.data = EwktBody(input.data)
          /\ Last.srid = EwktSrid(input.data)
    /\ (C11_Pre /\ ops = << "as_wkt", "as_ewkt" >>) =>
          /\ err = ""
          /\ Last.extended
          /\ Last.data = SridPrefix \o Decimal(EwktSrid(input.data)) \o << chSemi >>
                           \o EwktBody(input.data)
    /\ (/\ input.cls = "WKT"
        /\ ops # << >>
        /\ ops[Len(ops)] = "as_ewkt"
        /\ ~Receiver.extended
        /\ ~IsMinusOne(Receiver.srid)) =>
          /\ err = ""
          /\ StartsWith(Last.data, SridPrefix \o Decimal(Receiver.srid) \o << chSemi >>)

\* ------------------------------------------------------------------ C12

\* the text between "SRID=" and the first ";" is no integer: it is empty, or
\* holds a character that no integer literal holds
NotAnInteger(t) ==
    \/ t = << >>
    \/ \E i \in 1..Len(t) :
          ~(IsDigit(t[i]) \/ IsSpace(t[i]) \/ t[i] \in {chMinus, chPlus, chUnderscore})

\* extended text whose prefix is malformed
MalformedPrefix(d) ==
    \/ Count(d, chSemi) = 0
    \/ (Count(d, chSemi) = 1 /\ NotAnInteger(WktSridText(d)))

C12_Pre ==
    /\ input.cls = "WKT"
    /\ ops = << >>
    /\ StartsWith(input.data, SridPrefix)
    /\ IsMinusOne(input.srid)
    /\ input.ext \in {"None", "True"}
    /\ MalformedPrefix(input.data)

\* C12: constructing a WKTElement from extended text without an explicit SRID
\* raises ArgumentError and gives no element when the text has no ";" or when
\* what stands between "SRID=" and ";" is not an integer; no element with
\* srid = -1 comes out of such input.
C12_MalformedPrefix ==
    C12_Pre =>
        /\ err = "ArgumentError"
        /\ trace = << >>

C12_Witness ==
    /\ C12_Pre
    /\ input.data = SridPrefix \o << 52, 80, chSemi, 80 >>
    /\ input.ext = "None"
    /\ err = "ArgumentError"

\* ------------------------------------------------------------------ C13

\* the number of bytes an input holds: two hexadecimal digits a byte
ByteCount(in) == IF in.kind = "str" THEN Len(in.data) \div 2 ELSE Len(in.data)

\* a raster input shorter than the header
ShortRaster(in) ==
    /\ in.cls = "Raster"
    /\ IF in.kind = "str" THEN Len(in.data) < 2 * MIN_HEADER_SIZE
                          ELSE Len(in.data) < MIN_HEADER_SIZE

\* the messages of the length errors
LengthTexts ==
    { "Raster hex data too short: {} chars, need at least {}",
      "Raster binary data too short: {} bytes, need at least {}",
      "Raster data too short: {} bytes, need at least {}" }

HeaderReadable(in) ==
    IF in.kind = "str"
    THEN Len(in.data) >= 2 * MIN_HEADER_SIZE /\ IsHex(Slice(in.data, 0, 2 * MIN_HEADER_SIZE))
    ELSE Len(in.data) >= MIN_HEADER_SIZE
HeaderBytes(in) ==
    IF in.kind = "str" THEN Unhexlify(Slice(in.data, 0, 2 * MIN_HEADER_SIZE))
    ELSE Slice(in.data, 0, MIN_HEADER_SIZE)

\* bands, width and height are not 0: some byte of each field is not 0
NamesBandsAndSides(hb) ==
    /\ hb[4] # 0 \/ hb[5] # 0
    /\ hb[58] # 0 \/ hb[59] # 0
    /\ hb[60] # 0 \/ hb[61] # 0

\* C14 as stated: the constructor and wkbHeader accept a buffer exactly when
\* it has at least 61 bytes and byte 0 is 0 or 1.
C14_ExactlyWhen ==
    (input.cls = "Raster" /\ input.kind = "bytes") =>
        /\ err = "" <=> (HeaderReadable(input) /\ HeaderBytes(input)[1] \in {0, 1})
        /\ decoded.fn = "wkbHeader" =>
              (decoded.err = "" <=> (HeaderReadable(input) /\ HeaderBytes(input)[1] \in {0, 1}))

\* C14: the constructor accepts a raster exactly when its first 61 bytes can be
\* had and byte 0 is 0 or 1; wkbHeader accepts exactly when, besides, the
\* header names at least one band and a width and a height that are not 0. A
\* byte 0 that is neither 0 nor 1 fails with ValueError in both, and nothing
\* is returned.
C14_HeaderAccepts ==
    input.cls = "Raster" =>
        /\ err = "" <=> (HeaderReadable(input) /\ HeaderBytes(input)[1] \in {0, 1})
        /\ decoded.fn = "wkbHeader" =>
              (decoded.err = "" <=>
                  /\ HeaderReadable(input)
                  /\ HeaderBytes(input)[1] \in {0, 1}
                  /\ NamesBandsAndSides(HeaderBytes(input)))
        /\ (HeaderReadable(input) /\ HeaderBytes(input)[1] \notin {0, 1}) =>
              /\ err = "ValueError"
              /\ trace = << >>
              /\ decoded.fn = "wkbHeader" => (decoded.err = "ValueError" /\ decoded.ret = << >>)

C14_Witness ==
    /\ input.cls = "Raster"
    /\ input.kind = "bytes"
    /\ Len(input.data) >= MIN_HEADER_SIZE
    /\ input.data[1] = 2
    /\ err = "ValueError"
    /\ trace = << >>
    /\ decoded.fn = "wkbHeader"
    /\ decoded.err = "ValueError"
    /\ decoded.ret = << >>

\* ------------------------------------------------------------------ C15

\* the bytes handed to wkbImage, when they can be had
Decodable(in) == in.cls = "Raster" /\ (in.kind = "str" => IsHex(in.data))
RawOf(in) == IF in.kind = "str" THEN Unhexlify(in.data) ELSE in.data

\* a 16-bit field of the header at offset a, in the byte order byte 0 names
Field16(raw, a) ==
    IF raw[1] = 0 THEN raw[a + 1] * 256 + raw[a + 2] ELSE raw[a + 2] * 256 + raw[a + 1]

\* a raster of one band of a supported pixel type, whole
SingleBand(raw) ==
    /\ Len(raw) > MIN_HEADER_SIZE
    /\ raw[1] \in {0, 1}
    /\ Field16(raw, 3) = 1
    /\ Field16(raw, 57) > 0
    /\ Field16(raw, 59) > 0
    /\ (raw[MIN_HEADER_SIZE + 1] - 64) \in DOMAIN PTYPE
    /\ Len(raw) >= MIN_HEADER_SIZE + 1
           + Field16(raw, 57) * Field16(raw, 59) * PTYPE[raw[MIN_HEADER_SIZE + 1] - 64].psize

C15_Pre ==
    /\ decoded.fn = "wkbImage"
    /\ Decodable(input)
    /\ SingleBand(RawOf(input))

\* C15: wkbImage on a raster of one band of width W, height H and supported
\* pixel type T returns one grid of H rows of W elements, element [i][j]
\* unpacked from the sampleSize(T) bytes at offset 62 + (i*W + j)*sampleSize(T),
\* and stops at offset 61 + 1 + W*H*sampleSize(T); for type 0 with samples 0
\* and 1 each element equals its byte.
C15_SingleBand ==
    C15_Pre =>
        LET raw == RawOf(input)
            W == Field16(raw, 57)
            H == Field16(raw, 59)
            T == raw[MIN_HEADER_SIZE + 1] - 64
            size == PTYPE[T].psize
            at(i, j) == MIN_HEADER_SIZE + 1 + (i * W + j) * size
        IN  /\ decoded.err = ""
            /\ Len(decoded.ret[1]) = 1
            /\ Len(decoded.ret[1][1]) = H
            /\ \A i \in 0..(H - 1) :
                  /\ Len(decoded.ret[1][1][i + 1]) = W
                  /\ \A j \in 0..(W - 1) :
                        /\ decoded.ret[1][1][i + 1][j + 1]
                             = Unpack(FormatE(raw[1], PTYPE[T].ptype),
                                      Slice(raw, at(i, j), at(i, j) + size))
                        /\ (T = 0 /\ raw[at(i, j) + 1] \in {0, 1}) =>
                              decoded.ret[1][1][i + 1][j + 1] = PyInt(raw[at(i, j) + 1])
            /\ decoded.offset = MIN_HEADER_SIZE + 1 + W * H * size

C15_Witness ==
    /\ C15_Pre
    /\ Field16(RawOf(input), 57) = 2
    /\ Field16(RawOf(input), 59) = 2
    /\ RawOf(input)[MIN_HEADER_SIZE + 1] = 69
    /\ decoded.err = ""
    /\ Len(decoded.ret[1][1]) = 2
    /\ decoded.ret[1][1][1][2] # decoded.ret[1][1][2][1]
    /\ decoded.offset = 70

\* ------------------------------------------------------------------ C16

\* a header wkbHeader accepts
GoodHeader(raw) ==
    /\ Len(raw) >= MIN_HEADER_SIZE
    /\ raw[1] \in {0, 1}
    /\ Field16(raw, 3) > 0
    /\ Field16(raw, 57) > 0
    /\ Field16(raw, 59) > 0

\* from band i at offset on, the bands before being whole and of supported
\* types: some band has fewer bytes left than 1 + width*height*sampleSize
RECURSIVE BandCutShort(_, _, _)
BandCutShort(raw, offset, i) ==
    IF i = Field16(raw, 3) THEN FALSE
    ELSE IF Len(raw) - offset < 1 THEN TRUE
    ELSE IF (raw[offset + 1] - 64) \notin DOMAIN PTYPE THEN FALSE
    ELSE LET need == 1 + Field16(raw, 57) * Field16(raw, 59) * PTYPE[raw[offset + 1] - 64].psize
         IN  IF Len(raw) - offset < need THEN TRUE
             ELSE BandCutShort(raw, offset + need, i + 1)

\* the messages of a band that is cut short
CutShortTexts ==
    { "Raster data too short for band {} header",
      "Failed to read band {}: Raster data too short for band: len={}, required={} (offset={}, width={}, height={}, pixelsize={})" }

C16_Pre ==
    /\ decoded.fn = "wkbImage"
    /\ Decodable(input)
    /\ GoodHeader(RawOf(input))
    /\ BandCutShort(RawOf(input), MIN_HEADER_SIZE, 0)

\* C16: when at some band fewer bytes are left than 1 + width*height*sampleSize,
\* wkbImage raises the ValueError of data too short and returns nothing, the
\* bands decoded before included.
C16_NoPartialResult ==
    C16_Pre =>
        /\ decoded.err = "ValueError"
        /\ decoded.msg.text \in CutShortTexts
        /\ decoded.ret = << >>

\* a second band cut short after a first one that is whole
C16_Witness ==
    /\ C16_Pre
    /\ Field16(RawOf(input), 3) = 2
    /\ decoded.offset > MIN_HEADER_SIZE
    /\ decoded.err = "ValueError"
    /\ decoded.msg.args[1] = 2
    /\ decoded.ret = << >>

\* ------------------------------------------------------------------ C17

\* from band i at offset on, the bands before being whole and of supported
\* types: some band has a metadata byte that names no supported pixel type
RECURSIVE BandUnsupported(_, _, _)
BandUnsupported(raw, offset, i) ==
    IF i = Field16(raw, 3) THEN FALSE
    ELSE IF Len(raw) - offset < 1 THEN FALSE
    ELSE IF (raw[offset + 1] - 64) \notin DOMAIN PTYPE THEN TRUE
    ELSE LET need == 1 + Field16(raw, 57) * Field16(raw, 59) * PTYPE[raw[offset + 1] - 64].psize
         IN  IF Len(raw) - offset < need THEN FALSE
             ELSE BandUnsupported(raw, offset + need, i + 1)

\* the exception raised for input that is too short
MalformedInput == wkbHeader(<< >>).err

C17_Pre ==
    /\ decoded.fn = "wkbImage"
    /\ Decodable(input)
    /\ GoodHeader(RawOf(input))
    /\ BandUnsupported(RawOf(input), MIN_HEADER_SIZE, 0)

\* C17: a band whose metadata byte minus 64 is no supported pixel type makes
\* wkbImage raise an exception of another kind than the one raised for input
\* that is too short, and nothing is returned.
C17_UnsupportedPixelType ==
    C17_Pre =>
        /\ decoded.err # ""
        /\ decoded.ret = << >>
        /\ decoded.err # MalformedInput

\* ------------------------------------------------------------------ C18

Reversed(b) == [k \in 1..Len(b) |-> b[Len(b) + 1 - k]]

\* the fields of size bytes that make up b, each reversed
ReversedEach(b, size) ==
    [k \in 1..Len(b) |-> b[((k - 1) \div size) * size + size - ((k - 1) % size)]]

\* the same type word and SRID in the other byte order: byte 0 changed from
\* 0 to 1 or from 1 to 0, the type word reversed, and the SRID word reversed
\* when the type word has the SRID bit
MirrorWkb(p) ==
    << 1 - p[1] >> \o Reversed(Slice(p, 1, 5))
    \o (IF HasSridBit(p) /\ Len(p) >= 9
        THEN Reversed(Slice(p, 5, 9)) \o SliceFrom(p, 9)
        ELSE SliceFrom(p, 5))

\* the same header fields in the other byte order
MirrorHeader(raw) ==
    << 1 - raw[1] >> \o ReversedEach(Slice(raw, 1, 5), 2)
    \o ReversedEach(Slice(raw, 5, 53), 8)
    \o Reversed(Slice(raw, 53, 57)) \o ReversedEach(Slice(raw, 57, 61), 2)

\* the same samples in the other byte order, for the bands that are whole and
\* of a supported type; what follows them is left as it is
RECURSIVE MirrorBands(_, _, _)
MirrorBands(raw, offset, i) ==
    IF i = Field16(raw, 3) \/ Len(raw) - offset < 1 THEN SliceFrom(raw, offset)
    ELSE IF (raw[offset + 1] - 64) \notin DOMAIN PTYPE THEN SliceFrom(raw, offset)
    ELSE LET size == PTYPE[raw[offset + 1] - 64].psize
             need == 1 + Field16(raw, 57) * Field16(raw, 59) * size
         IN  IF Len(raw) - offset < need THEN SliceFrom(raw, offset)
             ELSE << raw[offset + 1] >>
                  \o ReversedEach(Slice(raw, offset + 1, offset + need), size)
                  \o MirrorBands(raw, offset + need, i + 1)

MirrorRaster(raw) == MirrorHeader(raw) \o MirrorBands(raw, MIN_HEADER_SIZE, 0)

\* data in the form of the input: bytes, or hexadecimal digits
InFormOf(in, p) == IF in.kind = "str" THEN Hexlify(p) ELSE p

\* a header but for the byte order it was written in
Fields(h) == [h EXCEPT !.endianness = 0]

C18_WkbPre ==
    /\ input.cls = "WKB"
    /\ ops = << >>
    /\ IsMinusOne(input.srid)
    /\ input.ext = "None"
    /\ Len(InPayload) >= 5
    /\ InPayload[1] \in {0, 1}

C18_RasterPre ==
    /\ input.cls = "Raster"
    /\ Decodable(input)
    /\ Len(RawOf(input)) >= MIN_HEADER_SIZE
    /\ RawOf(input)[1] \in {0, 1}

\* C18: a WKB payload and the payload that holds the same type word and SRID
\* in the other byte order (byte 0 = 0 against byte 0 = 1) construct elements
\* with the same srid and extended flag, or both raise the same exception; a
\* raster and the raster that holds the same header fields and samples in the
\* other byte order construct elements with the same srid, and wkbHeader and
\* wkbImage return the same header fields and the same grids for both.
C18_EndiannessInvariance ==
    /\ C18_WkbPre =>
          LET m == WKBElementInit(input.kind, InFormOf(input, MirrorWkb(InPayload)),
                                  input.srid, input.ext)
          IN  /\ m.err = err
              /\ err = "" => /\ m.e.srid = trace[1].srid
                             /\ m.e.extended = trace[1].extended
    /\ C18_RasterPre =>
          LET mirror == InFormOf(input, MirrorRaster(RawOf(input)))
              m == RasterElementInit(input.kind, mirror)
          IN  /\ m.err = err
              /\ err = "" => /\ m.e.srid = trace[1].srid
                             /\ m.e.extended = trace[1].extended
              /\ (decoded.fn = "wkbHeader") =>
                    LET d == wkbHeader(mirror)
                    IN  /\ d.err = decoded.err
                        /\ d.msg = decoded.msg
                        /\ decoded.err = "" => Fields(d.ret[1]) = Fields(decoded.ret[1])
              /\ (decoded.fn = "wkbImage") =>
                    LET d == wkbImage(input.kind, mirror)
                    IN  /\ d.err = decoded.err
                        /\ d.msg = decoded.msg
                        /\ d.ret = decoded.ret
                        /\ d.offset = decoded.offset

\* a little-endian raster of 16-bit samples, the first one 0x02FF
C18_Witness ==
    /\ C18_RasterPre
    /\ RawOf(input)[1] = 1
    /\ decoded.fn = "wkbImage"
    /\ decoded.err = ""
    /\ RawOf(input)[MIN_HEADER_SIZE + 1] = 69
    /\ decoded.ret[1][1][1][1] = PyInt(767)
    /\ trace[1].srid = PyInt(4326)
    /\ wkbImage("bytes", MirrorRaster(RawOf(input))).ret = decoded.ret

\* ------------------------------------------------------------------ C19

\* a hexadecimal string that is no valid payload: a character that is no
\* hexadecimal digit, or an odd number of characters
InvalidHex(in) == in.cls \in {"WKB", "Raster"} /\ in.kind = "str" /\ ~IsHex(in.data)

\* C19: a WKBElement or RasterElement constructor handed a string that is not
\* hexadecimal throughout raises, so that no element exists whose later
\* conversion or decoding fails on the invalid content.
C19_FailsAtConstruction ==
    InvalidHex(input) =>
        /\ trace = << >>
        /\ ops # << >> => err = ""
        /\ decoded.fn = "wkbImage" => decoded.msg.text # "Failed to decode raster data: {}"

\* ------------------------------------------------------------------ C20

\* a payload too short for its type word, or for the SRID its type word announces
TooShortWkb(p) == Len(p) < 5 \/ (HasSridBit(p) /\ Len(p) < 9)

C20_Pre ==
    /\ input.cls = "WKB"
    /\ ops = << >>
    /\ IsMinusOne(input.srid)
    /\ input.ext = "None"
    /\ TooShortWkb(InPayload)

\* C20: a WKBElement constructor handed fewer than 5 bytes, or fewer than 9
\* bytes with the SRID bit set, raises the exception of input that is too
\* short: it constructs no element and raises no other exception.
C20_ShortBufferFails ==
    C20_Pre =>
        /\ trace = << >>
        /\ err = MalformedInput

\* ------------------------------------------------------------------ C21

\* a conversion call: one more name in ops
Converts == Len(ops') = Len(ops) + 1

\* C21: as_wkb, as_ewkb, as_wkt and as_ewkt leave every element that exists,
\* the receiver included, with the data, srid and extended it had, whether the
\* call returns or raises; a call that returns gives one new element.
C21_Immutable ==
    [][Converts =>
         /\ SubSeq(trace', 1, Len(trace)) = trace
         /\ Len(trace') = IF err' = "" THEN Len(trace) + 1 ELSE Len(trace)]_vars

\* the receiver of two conversions is still what the constructor built, and
\* each conversion gave another payload
C21_Witness ==
    /\ input.cls = "WKB"
    /\ ops = << "as_ewkb", "as_wkb" >>
    /\ err = ""
    /\ Len(trace) = 3
    /\ trace[1].data = input.data
    /\ ~trace[1].extended
    /\ trace[2].extended
    /\ trace[2].data # trace[1].data
    /\ ~trace[3].extended


\* ------------------------------------------------------------------ C22

\* an EWKB buffer held by an element that is marked extended: the flag was
\* detected from the buffer or passed as True
C22_Pre ==
    /\ input.cls = "WKB"
    /\ input.ext \in {"None", "True"}
    /\ Ewkb(InPayload)
    /\ ops = << "as_wkb" >>

\* byte 0, the type word without bit 0x20000000, the bytes from offset 9
C22_Expected ==
    LET p == InPayload
        t == TypeWordBE(p)
    IN  << p[1] >>
        \o Encode(p[1], << t[1] - 32, t[2], t[3], t[4] >>)
        \o SubSeq(p, 10, Len(p))

\* C22: as_wkb() on an EWKB buffer with the SRID bit set gives exactly: the
\* original byte 0, the type word with only bit 0x20000000 cleared (the
\* 0x80000000 and 0x40000000 flags kept) in the declared byte order, then the
\* original bytes from offset 9; the result is 4 bytes shorter, not extended,
\* and has the srid of the element it was called on.
C22_StripLayout ==
    C22_Pre =>
        /\ err = ""
        /\ Len(trace) = 2
        /\ trace[1].extended
        /\ trace[2].kind = input.kind
        /\ PayloadOf(trace[2].kind, trace[2].data) = C22_Expected
        /\ Len(PayloadOf(trace[2].kind, trace[2].data)) = Len(InPayload) - 4
        /\ (input.data = Lower(input.data) =>
                trace[2].data = FormData(IF input.kind = "str" THEN "hex" ELSE "bytes",
                                         C22_Expected))
        /\ ~trace[2].extended
        /\ trace[2].srid = trace[1].srid

\* a little-endian XYZM point with SRID 4326 loses the SRID and keeps both flags
C22_Witness ==
    /\ C22_Pre
    /\ err = ""
    /\ InPayload[1] = 1
    /\ TypeWordBE(InPayload) = << 224, 0, 0, 1 >>
    /\ Len(InPayload) = 11
    /\ trace[1].srid = PyInt(4326)
    /\ PayloadOf(trace[2].kind, trace[2].data) = << 1, 1, 0, 0, 192, 171, 228 >>


\* ------------------------------------------------------------------ C23

\* a payload whose type word has bit 0x20000000 clear, in an element built with
\* any srid and extended arguments
C23_Pre ==
    /\ input.cls = "WKB"
    /\ PlainWkb(InPayload)
    /\ ops = << "as_wkb" >>

\* C23: as_wkb() on a WKBElement whose payload has the SRID bit clear, however
\* the element was constructed (explicit extended=True included), returns the
\* payload unchanged, with no bytes removed.
C23_StripNoOp ==
    C23_Pre =>
        /\ err = ""
        /\ Len(trace) = 2
        /\ HoldsInput(trace[2])
        /\ Len(PayloadOf(trace[2].kind, trace[2].data)) = Len(InPayload)


\* ------------------------------------------------------------------ C24

\* a payload whose type word has bit 0x20000000 set, in an element built with
\* any srid and extended arguments
C24_Pre ==
    /\ input.cls = "WKB"
    /\ Ewkb(InPayload)
    /\ ops = << "as_ewkb" >>

\* C24: as_ewkb() on a WKBElement whose payload has the SRID bit set, however
\* the element was constructed (explicit extended=False and an explicit srid
\* included), returns the payload unchanged and inserts no second SRID.
C24_InjectNoOp ==
    C24_Pre =>
        /\ err = ""
        /\ Len(trace) = 2
        /\ HoldsInput(trace[2])
        /\ Len(PayloadOf(trace[2].kind, trace[2].data)) = Len(InPayload)


\* ------------------------------------------------------------------ C25

\* the pixel type the metadata byte at offset names
TypeAt(raw, offset) == raw[offset + 1] - 64

\* where band i (counted from 0) starts: band 0 at 61, band i+1 after the
\* metadata byte and the width*height*sampleSize bytes of band i
RECURSIVE BandStart(_, _)
BandStart(raw, i) ==
    IF i = 0 THEN MIN_HEADER_SIZE
    ELSE LET prev == BandStart(raw, i - 1)
         IN  prev + 1 + Field16(raw, 57) * Field16(raw, 59) * PTYPE[TypeAt(raw, prev)].psize

\* bands 0..n-1 are all there, each of a supported pixel type
RECURSIVE WholeBands(_, _)
WholeBands(raw, n) ==
    IF n = 0 THEN TRUE
    ELSE /\ WholeBands(raw, n - 1)
         /\ Len(raw) > BandStart(raw, n - 1)
         /\ TypeAt(raw, BandStart(raw, n - 1)) \in DOMAIN PTYPE
         /\ Len(raw) >= BandStart(raw, n)

\* the grid of the band that starts at offset start
GridAt(raw, start) ==
    LET W == Field16(raw, 57)
        H == Field16(raw, 59)
        T == TypeAt(raw, start)
        size == PTYPE[T].psize
        at(i, j) == start + 1 + (i * W + j) * size
    IN  [i \in 1..H |-> [j \in 1..W |->
            Unpack(FormatE(raw[1], PTYPE[T].ptype),
                   Slice(raw, at(i - 1, j - 1), at(i - 1, j - 1) + size))]]

C25_Pre ==
    /\ decoded.fn = "wkbImage"
    /\ Decodable(input)
    /\ GoodHeader(RawOf(input))

\* C25: for a raster of N >= 1 bands, band 0 starts at offset 61 and band i+1
\* at offset(i) + 1 + width*height*sampleSize(pixelType_i), each band decoded
\* with its own pixel type; wkbImage succeeds exactly when every band is whole
\* and of a supported type, and then returns exactly N grids in band order and
\* stops where band N would start.
C25_Positional ==
    C25_Pre =>
        LET raw == RawOf(input)
            N == Field16(raw, 3)
        IN  /\ decoded.err = "" <=> WholeBands(raw, N)
            /\ decoded.err = "" =>
                  /\ Len(decoded.ret[1]) = N
                  /\ \A i \in 0..(N - 1) :
                        decoded.ret[1][i + 1] = GridAt(raw, BandStart(raw, i))
                  /\ decoded.offset = BandStart(raw, N)

\* two bands of 2 x 2 samples: float64 from 61, then int16 from 61 + 1 + 32
C25_Witness ==
    /\ C25_Pre
    /\ decoded.err = ""
    /\ Field16(RawOf(input), 3) = 2
    /\ Field16(RawOf(input), 57) = 2
    /\ Field16(RawOf(input), 59) = 2
    /\ TypeAt(RawOf(input), MIN_HEADER_SIZE) = 11
    /\ BandStart(RawOf(input), 1) = 94
    /\ TypeAt(RawOf(input), 94) = 5
    /\ Len(decoded.ret[1]) = 2
    /\ decoded.ret[1][2] = GridAt(RawOf(input), 94)
    /\ decoded.offset = 103


\* ------------------------------------------------------------------ C26

\* the bytes of the sample in row i, column j (counted from 0) of the band
\* that starts at offset start, most significant byte first
SampleBytes(raw, start, i, j) ==
    LET size == PTYPE[TypeAt(raw, start)].psize
        at == start + 1 + (i * Field16(raw, 57) + j) * size
        b == Slice(raw, at, at + size)
    IN  IF raw[1] = 1 THEN Reversed(b) ELSE b

\* the unsigned and the two's-complement reading of 1, 2 or 4 bytes
UnsignedOf(b) ==
    IF Len(b) = 1 THEN PyInt(b[1])
    ELSE IF Len(b) = 2 THEN PyInt(b[1] * 256 + b[2])
    ELSE W32(b[1] * 256 + b[2], b[3] * 256 + b[4])
SignedOf(b) ==
    IF b[1] < 128 THEN UnsignedOf(b)
    ELSE IF Len(b) = 1 THEN PyInt(b[1] - 256)
    ELSE IF Len(b) = 2 THEN PyInt(b[1] * 256 + b[2] - 65536)
    ELSE W32(b[1] * 256 + b[2] - 65536, b[3] * 256 + b[4])

\* every sample of every band of a decoded raster is read as its type says,
\* the types in signed being read as two's complement, those in unsigned as
\* plain binary, type 0 as a truth value, 10 and 11 as the IEEE-754 bits
SamplesReadAs(signed, unsigned) ==
    LET raw == RawOf(input)
    IN  \A n \in 0..(Field16(raw, 3) - 1) :
          \A i \in 0..(Field16(raw, 59) - 1) :
            \A j \in 0..(Field16(raw, 57) - 1) :
              LET T == TypeAt(raw, BandStart(raw, n))
                  b == SampleBytes(raw, BandStart(raw, n), i, j)
                  v == decoded.ret[1][n + 1][i + 1][j + 1]
              IN  /\ T = 0 => v = PyInt(IF b[1] = 0 THEN 0 ELSE 1)
                  /\ T \in unsigned => v = UnsignedOf(b)
                  /\ T \in signed => v = SignedOf(b)
                  /\ T \in {10, 11} => v = [bits |-> b]
                  /\ Len(b) = (IF T \in {0, 1, 2, 3, 4} THEN 1
                               ELSE IF T \in {5, 6} THEN 2
                               ELSE IF T \in {7, 8, 10} THEN 4 ELSE 8)

C26_Pre ==
    /\ C25_Pre
    /\ decoded.err = ""

\* C26 as stated: samples of types 1, 2, 3 and 4 are one byte each, all read
\* as unsigned 8-bit values (0xFF is 255 for each of them); type 0 is boolean,
\* 5/6 are signed/unsigned 16-bit, 7/8 signed/unsigned 32-bit, in the
\* header's byte order.
C26_AllUnsignedBytes ==
    C26_Pre => SamplesReadAs({5, 7}, {1, 2, 3, 4, 6, 8})

\* C26, amended: samples of types 1, 2 and 4 are read as unsigned 8-bit values
\* and samples of type 3 as signed 8-bit values (0xFF is -1); type 0 is
\* boolean, 5/6 are signed/unsigned 16-bit, 7/8 signed/unsigned 32-bit, in the
\* header's byte order.
C26_NumericSemantics ==
    C26_Pre => SamplesReadAs({3, 5, 7}, {1, 2, 4, 6, 8})

\* one band of type 3 whose first sample is the byte 0xFF, decoded as -1
C26_Witness ==
    /\ C26_Pre
    /\ Field16(RawOf(input), 3) = 1
    /\ TypeAt(RawOf(input), MIN_HEADER_SIZE) = 3
    /\ RawOf(input)[MIN_HEADER_SIZE + 2] = 255
    /\ decoded.ret[1][1][1][1] = PyInt(-1)


\* ------------------------------------------------------------------ C27

\* the payload an element holds
ElementPayload(e) == PayloadOf(e.kind, e.data)

\* a WKBElement built with extended left out, and the calls made on it
C27_Pre ==
    /\ input.cls = "WKB"
    /\ input.ext = "None"
    /\ Len(trace) >= 1

\* C27: for a WKBElement built with the extended flag detected, and for every
\* element a sequence of as_wkb / as_ewkb calls on it returns, extended is true
\* exactly when bit 0x20000000 is set in the type word of the payload; as_wkb()
\* returns a non-extended element, and as_ewkb() on an element with srid # -1
\* returns an extended one.
C27_FlagMatchesBit ==
    C27_Pre =>
        /\ \A k \in 1..Len(trace) :
              trace[k].extended <=> HasSridBit(ElementPayload(trace[k]))
        /\ \A k \in 2..Len(trace) :
              /\ ops[k - 1] = "as_wkb" => ~trace[k].extended
              /\ (ops[k - 1] = "as_ewkb" /\ ~IsMinusOne(trace[k - 1].srid))
                     => trace[k].extended

\* a plain little-endian point given srid 4326: as_ewkb() sets flag and bit,
\* as_wkb() clears both
C27_Witness ==
    /\ C27_Pre
    /\ ops = << "as_ewkb", "as_wkb" >>
    /\ Len(trace) = 3
    /\ input.srid = PyInt(4326)
    /\ ~trace[1].extended /\ ~HasSridBit(ElementPayload(trace[1]))
    /\ trace[2].extended /\ HasSridBit(ElementPayload(trace[2]))
    /\ ~trace[3].extended /\ ~HasSridBit(ElementPayload(trace[3]))
    /\ Len(ElementPayload(trace[1])) >= 5


\* ------------------------------------------------------------------ C28

\* an element was constructed, perhaps converted, and its state was handed to
\* a fresh instance
C28_Pre ==
    /\ trace # << >>
    /\ ops # << >>
    /\ ops[Len(ops)] = "__setstate__"

\* C28: for every successfully constructed WKTElement, WKBElement or
\* RasterElement e, __setstate__(e.__getstate__()) on a fresh instance succeeds
\* and gives an element equal to e, with the srid, extended flag and
\* description of e and no SRID parsed again from the payload; a restored
\* WKBElement holds raw bytes, whether e held bytes or a hex string.
C28_StateRoundTrip ==
    C28_Pre =>
        /\ err = ""
        /\ eqres = "True"
        /\ other.cls = Last.cls
        /\ other.srid = Last.srid
        /\ other.extended = Last.extended
        /\ Desc(other) = Desc(Last)
        /\ Last.cls = "WKB" => other.kind = "bytes" /\ other.data = ElementPayload(Last)

====
